---- MODULE Spec2Model ----
(***************************************************************************)
(* datadiff-terminal: the field dispatcher of libdtf (compare_field), the  *)
(* comparators and handlers it routes to, the four diff finders and        *)
(* collect_data of the terminal front end.                                 *)
(*                                                                         *)
(* A serde_json Value is a record [kind, v]; a ComparisionResult is the    *)
(* tuple <<key diffs, type diffs, value diffs, array diffs>> of sequences. *)
(* An Option is a sequence of length at most one (None is <<>>).           *)
(***************************************************************************)
EXTENDS Integers, Sequences, FiniteSets, TLC

VARIABLES
    working_context,  \* libdtf WorkingContext: file_a, file_b, config
    config,           \* the front end's Config: parse_args', then the WorkingContext's
    key,              \* the field path handed to compare_field
    a_value,          \* serde_json Value of side A
    b_value,          \* serde_json Value of side B
    pc,               \* "start", "field" (compare_field ran), "collected"
    arms,             \* indices of the match arms whose pattern matched
    result,           \* ComparisionResult of compare_field
    collected,        \* DiffCollection returned by collect_data
    invoked,          \* names of the finders collect_data called
    tasks,            \* the finders run as tasks: how far each walked, what it found
    stack,            \* the calls of the dispatcher that are pending, the next one first
    tables,           \* the tables render_tables printed, in the order printed
    args,             \* the Arguments of the run
    disk,             \* the files: what each path holds
    outcome,          \* how the run ended
    written           \* what the last write_to_file that succeeded was called with

runVars == <<args, disk, outcome, written>>

vars == <<working_context, config, key, a_value, b_value, pc, arms, result, collected,
          invoked, tasks, stack, tables, runVars>>

-----------------------------------------------------------------------------
(* Bounds of the model *)

\* longest array among the inputs
MaxLen == 2

-----------------------------------------------------------------------------
(* serde_json::Value *)

Null == [kind |-> "Null"]

Bool(b) == [kind |-> "Bool", v |-> b]

Number(n) == [kind |-> "Number", v |-> n]

String(s) == [kind |-> "String", v |-> s]

Array(s) == [kind |-> "Array", v |-> s]

Object(m) == [kind |-> "Object", v |-> m]

ValueKinds == {"Null", "Bool", "Number", "String", "Array", "Object"}

\* the keys objects are built from, in the iteration order of serde_json's Map
KeyOrder == <<"x", "y", "z">>

Keys == {KeyOrder[i] : i \in DOMAIN KeyOrder}

EmptyMap == [k \in {} |-> Null]

-----------------------------------------------------------------------------
(* libdtf::diff_types *)

\* Display with the name of bool taken from the arm of number
ValueTypeDisplay_BoolAsNumber(kind) ==
    CASE kind = "Null" -> "null"
      [] kind = "Bool" -> "number"
      [] kind = "Number" -> "number"
      [] kind = "String" -> "string"
      [] kind = "Array" -> "array"
      [] kind = "Object" -> "object"

\* impl fmt::Display for ValueType
ValueTypeDisplay(kind) ==
    CASE kind = "Null" -> "null"
      [] kind = "Bool" -> "bool"
      [] kind = "Number" -> "number"
      [] kind = "String" -> "string"
      [] kind = "Array" -> "array"
      [] kind = "Object" -> "object"

ArrayDiffDesc == {"AHas", "AMisses", "BHas", "BMisses"}

KeyDiff(k, has, misses) == [key |-> k, has |-> has, misses |-> misses]

ValueDiff(k, value1, value2) == [key |-> k, value1 |-> value1, value2 |-> value2]

ArrayDiff(k, descriptor, value) == [key |-> k, descriptor |-> descriptor, value |-> value]

TypeDiff(k, type1, type2) == [key |-> k, type1 |-> type1, type2 |-> type2]

\* (vec![], vec![], vec![], vec![])
EmptyResult == <<<<>>, <<>>, <<>>, <<>>>>

\* what stands for the result of a pair no arm of the match accepts
Unrouted == <<>>

-----------------------------------------------------------------------------
(* Text forms of values *)

RECURSIVE Serialize(_), SerializeElems(_, _), SerializeEntries(_, _, _)

\* the elements s[i..] of an array, comma separated
SerializeElems(s, i) ==
    IF i > Len(s) THEN ""
    ELSE Serialize(s[i]) \o (IF i < Len(s) THEN "," ELSE "") \o SerializeElems(s, i + 1)

\* the entries of a map for the keys KeyOrder[i..], comma separated
SerializeEntries(m, i, first) ==
    IF i > Len(KeyOrder) THEN ""
    ELSE IF KeyOrder[i] \in DOMAIN m
         THEN (IF first THEN "" ELSE ",") \o "\"" \o KeyOrder[i] \o "\":"
              \o Serialize(m[KeyOrder[i]]) \o SerializeEntries(m, i + 1, FALSE)
         ELSE SerializeEntries(m, i + 1, first)

\* Value::to_string(): the compact JSON text of a value
Serialize(value) ==
    CASE value.kind = "Null" -> "null"
      [] value.kind = "Bool" -> IF value.v THEN "true" ELSE "false"
      [] value.kind = "Number" -> ToString(value.v)
      [] value.kind = "String" -> "\"" \o value.v \o "\""
      [] value.kind = "Array" -> "[" \o SerializeElems(value.v, 1) \o "]"
      [] value.kind = "Object" -> "{" \o SerializeEntries(value.v, 1, TRUE) \o "}"

\* to_string() of the String, Number or bool bound by a same-primitive arm
Display(value) ==
    IF value.kind = "String" THEN value.v ELSE Serialize(value)

\* the path of the child k of the object at path key_in
ChildKey(key_in, k) ==
    IF key_in = "" THEN k ELSE key_in \o "." \o k

\* the path of the element at (zero based) index of the array at path key_in
IndexKey(key_in, index) ==
    key_in \o "[" \o ToString(index) \o "]"

\* appends two ComparisionResults category by category
Merge(r1, r2) ==
    <<r1[1] \o r2[1], r1[2] \o r2[2], r1[3] \o r2[3], r1[4] \o r2[4]>>

\* the tuple an arm builds around the vector of one category
InSlot(slot, diffs) ==
    [i \in 1..4 |-> IF i = slot THEN diffs ELSE <<>>]

-----------------------------------------------------------------------------
(* The comparators and handlers compare_field routes to *)

RECURSIVE compare_field(_, _, _, _), compare_objects(_, _, _, _),
          compare_arrays(_, _, _, _), ApplyArm(_, _, _, _, _)

\* Primitive Comparator: a single ValueDiff unless the two values are equal
compare_primitives(key_in, a, b) ==
    IF a = b THEN <<>> ELSE <<ValueDiff(key_in, Display(a), Display(b))>>

\* Type-Mismatch Handler: one TypeDiff carrying the two kind names
handle_different_types(key_in, a, b) ==
    <<TypeDiff(key_in, ValueTypeDisplay(a.kind), ValueTypeDisplay(b.kind))>>

\* Null-Pair Handler, null against a primitive: "null" against the other text
handle_one_element_null_primitives(key_in, a, b) ==
    <<ValueDiff(key_in, Serialize(a), Serialize(b))>>

\* the canonical texts of the elements of an array
ElementTexts(s) ==
    [i \in 1..Len(s) |-> Serialize(s[i])]

RECURSIVE OnlyIn(_, _, _), DescriptorPairs(_, _, _, _, _)

\* the distinct texts of s[i..] that are not among t, in order of first occurrence
OnlyIn(s, t, i) ==
    IF i > Len(s) THEN <<>>
    ELSE (IF (\A j \in 1..Len(t) : t[j] # s[i]) /\ (\A j \in 1..(i - 1) : s[j] # s[i])
          THEN <<s[i]>> ELSE <<>>) \o OnlyIn(s, t, i + 1)

\* only the holder's entry emitted for each text
DescriptorPairs_HolderOnly(key_in, texts, holder, misser, i) ==
    IF i > Len(texts) THEN <<>>
    ELSE <<ArrayDiff(key_in, holder, texts[i])>>
         \o DescriptorPairs(key_in, texts, holder, misser, i + 1)

\* one holder/misser pair of ArrayDiffs for each of the texts[i..]
DescriptorPairs(key_in, texts, holder, misser, i) ==
    IF i > Len(texts) THEN <<>>
    ELSE <<ArrayDiff(key_in, holder, texts[i]), ArrayDiff(key_in, misser, texts[i])>>
         \o DescriptorPairs(key_in, texts, holder, misser, i + 1)

\* Array Comparator, unordered mode: the set difference in both directions
unordered_array_diffs(key_in, a, b) ==
    DescriptorPairs(key_in, OnlyIn(ElementTexts(a), ElementTexts(b), 1), "AHas", "BMisses", 1)
    \o DescriptorPairs(key_in, OnlyIn(ElementTexts(b), ElementTexts(a), 1), "BHas", "AMisses", 1)

\* Null-Pair Handler, null against an array: the null side is an empty array
handle_one_element_null_arrays(key_in, a, b) ==
    unordered_array_diffs(key_in,
                          IF a.kind = "Array" THEN a.v ELSE <<>>,
                          IF b.kind = "Array" THEN b.v ELSE <<>>)

\* Null-Pair Handler, null against an object: the null side is an empty object
handle_one_element_null_objects(key_in, a, b, wc) ==
    compare_objects(key_in,
                    IF a.kind = "Object" THEN a.v ELSE EmptyMap,
                    IF b.kind = "Object" THEN b.v ELSE EmptyMap,
                    wc)

-----------------------------------------------------------------------------
(* compare_field: the match over (a_value, b_value) *)

\* one arm of the match: its pattern, the function it calls and the position
\* of that function's vector in the returned tuple (0: the call returns the
\* whole ComparisionResult)
Arm(a, b, call, slot) == [a |-> a, b |-> b, call |-> call, slot |-> slot]

\* two numbers handled as a number against null
SamePrimitiveArms_NumbersAsNull ==
    << Arm("Null", "Null", "empty", 0),
       Arm("String", "String", "compare_primitives", 3),
       Arm("Number", "Number", "handle_one_element_null_primitives", 3),
       Arm("Bool", "Bool", "compare_primitives", 3) >>

\* "Primitives of same type"
SamePrimitiveArms ==
    << Arm("Null", "Null", "empty", 0),
       Arm("String", "String", "compare_primitives", 3),
       Arm("Number", "Number", "compare_primitives", 3),
       Arm("Bool", "Bool", "compare_primitives", 3) >>

\* two arrays handled as an array against null, whatever the array mode
SameCompositeArms_ArraysAsNullArrays ==
    << Arm("Array", "Array", "handle_one_element_null_arrays", 4),
       Arm("Object", "Object", "compare_objects", 0) >>

\* "Composites of same type"
SameCompositeArms_ObjectsReportNothing ==
    << Arm("Array", "Array", "compare_arrays", 0),
       Arm("Object", "Object", "empty", 0) >>

SameCompositeArms ==
    << Arm("Array", "Array", "compare_arrays", 0),
       Arm("Object", "Object", "compare_objects", 0) >>

\* a bool against null reported as a type difference
NullPrimitiveArms_BoolAsTypeDifference ==
    << Arm("Null", "String", "handle_one_element_null_primitives", 3),
       Arm("Null", "Number", "handle_one_element_null_primitives", 3),
       Arm("Null", "Bool", "handle_one_element_null_primitives", 3),
       Arm("String", "Null", "handle_one_element_null_primitives", 3),
       Arm("Number", "Null", "handle_one_element_null_primitives", 3),
       Arm("Bool", "Null", "handle_different_types", 2) >>

\* "One value is null primitives"
NullPrimitiveArms ==
    << Arm("Null", "String", "handle_one_element_null_primitives", 3),
       Arm("Null", "Number", "handle_one_element_null_primitives", 3),
       Arm("Null", "Bool", "handle_one_element_null_primitives", 3),
       Arm("String", "Null", "handle_one_element_null_primitives", 3),
       Arm("Number", "Null", "handle_one_element_null_primitives", 3),
       Arm("Bool", "Null", "handle_one_element_null_primitives", 3) >>

\* an object against null reporting nothing
NullCompositeArms_ObjectNullDropped ==
    << Arm("Null", "Array", "handle_one_element_null_arrays", 4),
       Arm("Null", "Object", "handle_one_element_null_objects", 0),
       Arm("Array", "Null", "handle_one_element_null_arrays", 4),
       Arm("Object", "Null", "empty", 0) >>

\* null against an object reported as a type difference
NullCompositeArms_NullObjectAsTypeDifference ==
    << Arm("Null", "Array", "handle_one_element_null_arrays", 4),
       Arm("Null", "Object", "handle_different_types", 2),
       Arm("Array", "Null", "handle_one_element_null_arrays", 4),
       Arm("Object", "Null", "handle_one_element_null_objects", 0) >>

\* "One value is null, composites"
NullCompositeArms ==
    << Arm("Null", "Array", "handle_one_element_null_arrays", 4),
       Arm("Null", "Object", "handle_one_element_null_objects", 0),
       Arm("Array", "Null", "handle_one_element_null_arrays", 4),
       Arm("Object", "Null", "handle_one_element_null_objects", 0) >>

\* "Type difference a: string"
StringDifferenceArms ==
    << Arm("String", "Number", "handle_different_types", 2),
       Arm("String", "Bool", "handle_different_types", 2),
       Arm("String", "Array", "handle_different_types", 2),
       Arm("String", "Object", "handle_different_types", 2) >>

\* a number against a string taken for two primitives of one type
NumberDifferenceArms_AsPrimitives ==
    << Arm("Number", "String", "compare_primitives", 3),
       Arm("Number", "Bool", "handle_different_types", 2),
       Arm("Number", "Array", "handle_different_types", 2),
       Arm("Number", "Object", "handle_different_types", 2) >>

\* "Type difference a: number"
NumberDifferenceArms ==
    << Arm("Number", "String", "handle_different_types", 2),
       Arm("Number", "Bool", "handle_different_types", 2),
       Arm("Number", "Array", "handle_different_types", 2),
       Arm("Number", "Object", "handle_different_types", 2) >>

\* "Type difference a: bool"
BoolDifferenceArms ==
    << Arm("Bool", "String", "handle_different_types", 2),
       Arm("Bool", "Number", "handle_different_types", 2),
       Arm("Bool", "Array", "handle_different_types", 2),
       Arm("Bool", "Object", "handle_different_types", 2) >>

\* "Type difference a: array"
ArrayDifferenceArms ==
    << Arm("Array", "String", "handle_different_types", 2),
       Arm("Array", "Bool", "handle_different_types", 2),
       Arm("Array", "Number", "handle_different_types", 2),
       Arm("Array", "Object", "handle_different_types", 2) >>

\* the pattern of the (Object, Bool) arm repeated in place of (Object, String)
ObjectDifferenceArms_RepeatedPattern ==
    << Arm("Object", "Bool", "handle_different_types", 2),
       Arm("Object", "Bool", "handle_different_types", 2),
       Arm("Object", "Array", "handle_different_types", 2),
       Arm("Object", "Number", "handle_different_types", 2) >>

\* an object against a string handled as an object against null
ObjectDifferenceArms_StringAsNull ==
    << Arm("Object", "String", "handle_one_element_null_objects", 0),
       Arm("Object", "Bool", "handle_different_types", 2),
       Arm("Object", "Array", "handle_different_types", 2),
       Arm("Object", "Number", "handle_different_types", 2) >>

\* "Type difference a: object"
ObjectDifferenceArms ==
    << Arm("Object", "String", "handle_different_types", 2),
       Arm("Object", "Bool", "handle_different_types", 2),
       Arm("Object", "Array", "handle_different_types", 2),
       Arm("Object", "Number", "handle_different_types", 2) >>

\* the twenty arms of two different non-null types
TypeDifferenceArms ==
    StringDifferenceArms \o NumberDifferenceArms \o BoolDifferenceArms
    \o ArrayDifferenceArms \o ObjectDifferenceArms

\* the arms of the match, in source order
MatchArms ==
    SamePrimitiveArms \o SameCompositeArms \o NullPrimitiveArms
    \o NullCompositeArms \o TypeDifferenceArms

\* the arms whose pattern accepts (a, b)
MatchingArms(a, b) ==
    {i \in DOMAIN MatchArms : MatchArms[i].a = a.kind /\ MatchArms[i].b = b.kind}

\* the two maps handed to compare_objects in the wrong order
ApplyArm_ObjectsSwapped(arm, key_in, a, b, wc) ==
    CASE arm.call = "empty" -> EmptyResult
      [] arm.call = "compare_primitives" ->
            InSlot(arm.slot, compare_primitives(key_in, a, b))
      [] arm.call = "compare_arrays" -> compare_arrays(key_in, a.v, b.v, wc)
      [] arm.call = "compare_objects" -> compare_objects(key_in, b.v, a.v, wc)
      [] arm.call = "handle_one_element_null_primitives" ->
            InSlot(arm.slot, handle_one_element_null_primitives(key_in, a, b))
      [] arm.call = "handle_one_element_null_arrays" ->
            InSlot(arm.slot, handle_one_element_null_arrays(key_in, a, b))
      [] arm.call = "handle_one_element_null_objects" ->
            handle_one_element_null_objects(key_in, a, b, wc)
      [] arm.call = "handle_different_types" ->
            InSlot(arm.slot, handle_different_types(key_in, a, b))

\* the two primitives handed to compare_primitives in the wrong order
ApplyArm_PrimitivesSwapped(arm, key_in, a, b, wc) ==
    CASE arm.call = "empty" -> EmptyResult
      [] arm.call = "compare_primitives" ->
            InSlot(arm.slot, compare_primitives(key_in, b, a))
      [] arm.call = "compare_arrays" -> compare_arrays(key_in, a.v, b.v, wc)
      [] arm.call = "compare_objects" -> compare_objects(key_in, a.v, b.v, wc)
      [] arm.call = "handle_one_element_null_primitives" ->
            InSlot(arm.slot, handle_one_element_null_primitives(key_in, a, b))
      [] arm.call = "handle_one_element_null_arrays" ->
            InSlot(arm.slot, handle_one_element_null_arrays(key_in, a, b))
      [] arm.call = "handle_one_element_null_objects" ->
            handle_one_element_null_objects(key_in, a, b, wc)
      [] arm.call = "handle_different_types" ->
            InSlot(arm.slot, handle_different_types(key_in, a, b))

\* the two values handed to handle_one_element_null_arrays in the wrong order
ApplyArm_NullArraysSwapped(arm, key_in, a, b, wc) ==
    CASE arm.call = "empty" -> EmptyResult
      [] arm.call = "compare_primitives" ->
            InSlot(arm.slot, compare_primitives(key_in, a, b))
      [] arm.call = "compare_arrays" -> compare_arrays(key_in, a.v, b.v, wc)
      [] arm.call = "compare_objects" -> compare_objects(key_in, a.v, b.v, wc)
      [] arm.call = "handle_one_element_null_primitives" ->
            InSlot(arm.slot, handle_one_element_null_primitives(key_in, a, b))
      [] arm.call = "handle_one_element_null_arrays" ->
            InSlot(arm.slot, handle_one_element_null_arrays(key_in, b, a))
      [] arm.call = "handle_one_element_null_objects" ->
            handle_one_element_null_objects(key_in, a, b, wc)
      [] arm.call = "handle_different_types" ->
            InSlot(arm.slot, handle_different_types(key_in, a, b))

\* the two vectors handed to compare_arrays in the wrong order
ApplyArm_ArraysSwapped(arm, key_in, a, b, wc) ==
    CASE arm.call = "empty" -> EmptyResult
      [] arm.call = "compare_primitives" ->
            InSlot(arm.slot, compare_primitives(key_in, a, b))
      [] arm.call = "compare_arrays" -> compare_arrays(key_in, b.v, a.v, wc)
      [] arm.call = "compare_objects" -> compare_objects(key_in, a.v, b.v, wc)
      [] arm.call = "handle_one_element_null_primitives" ->
            InSlot(arm.slot, handle_one_element_null_primitives(key_in, a, b))
      [] arm.call = "handle_one_element_null_arrays" ->
            InSlot(arm.slot, handle_one_element_null_arrays(key_in, a, b))
      [] arm.call = "handle_one_element_null_objects" ->
            handle_one_element_null_objects(key_in, a, b, wc)
      [] arm.call = "handle_different_types" ->
            InSlot(arm.slot, handle_different_types(key_in, a, b))

\* the right-hand side of an arm, applied to the values the pattern bound
ApplyArm(arm, key_in, a, b, wc) ==
    CASE arm.call = "empty" -> EmptyResult
      [] arm.call = "compare_primitives" ->
            InSlot(arm.slot, compare_primitives(key_in, a, b))
      [] arm.call = "compare_arrays" -> compare_arrays(key_in, a.v, b.v, wc)
      [] arm.call = "compare_objects" -> compare_objects(key_in, a.v, b.v, wc)
      [] arm.call = "handle_one_element_null_primitives" ->
            InSlot(arm.slot, handle_one_element_null_primitives(key_in, a, b))
      [] arm.call = "handle_one_element_null_arrays" ->
            InSlot(arm.slot, handle_one_element_null_arrays(key_in, a, b))
      [] arm.call = "handle_one_element_null_objects" ->
            handle_one_element_null_objects(key_in, a, b, wc)
      [] arm.call = "handle_different_types" ->
            InSlot(arm.slot, handle_different_types(key_in, a, b))

\* a match takes the first arm whose pattern accepts the pair
compare_field(key_in, a, b, wc) ==
    LET matching == MatchingArms(a, b)
        first == CHOOSE i \in matching : \A j \in matching : i <= j
    IN  IF matching = {} THEN Unrouted ELSE ApplyArm(MatchArms[first], key_in, a, b, wc)

-----------------------------------------------------------------------------
(* Object Comparator and Array Comparator *)

RECURSIVE KeysOfA(_, _, _, _, _), KeysOnlyInB(_, _, _, _, _), SameOrder(_, _, _, _, _)

\* the keys KeyOrder[i..] of a: shared keys recurse, the others are KeyDiffs
KeysOfA(key_in, a, b, wc, i) ==
    IF i > Len(KeyOrder) THEN EmptyResult
    ELSE LET k == KeyOrder[i]
             here == IF k \notin DOMAIN a THEN EmptyResult
                     ELSE IF k \in DOMAIN b
                          THEN compare_field(ChildKey(key_in, k), a[k], b[k], wc)
                          ELSE InSlot(1, <<KeyDiff(ChildKey(key_in, k),
                                                   wc.file_a.name, wc.file_b.name)>>)
         IN  Merge(here, KeysOfA(key_in, a, b, wc, i + 1))

\* the keys KeyOrder[i..] that only b has
KeysOnlyInB(key_in, a, b, wc, i) ==
    IF i > Len(KeyOrder) THEN <<>>
    ELSE LET k == KeyOrder[i]
         IN  (IF k \in DOMAIN b /\ k \notin DOMAIN a
              THEN <<KeyDiff(ChildKey(key_in, k), wc.file_b.name, wc.file_a.name)>>
              ELSE <<>>) \o KeysOnlyInB(key_in, a, b, wc, i + 1)

\* Object Comparator over two maps
compare_objects(key_in, a, b, wc) ==
    Merge(KeysOfA(key_in, a, b, wc, 1), InSlot(1, KeysOnlyInB(key_in, a, b, wc, 1)))

\* Array Comparator, ordered mode, from the (one based) position i on: an
\* index only one side has is compared against an absent (null) counterpart
SameOrder(key_in, a, b, wc, i) ==
    IF i > Len(a) /\ i > Len(b) THEN EmptyResult
    ELSE Merge(compare_field(IndexKey(key_in, i - 1),
                             IF i <= Len(a) THEN a[i] ELSE Null,
                             IF i <= Len(b) THEN b[i] ELSE Null, wc),
               SameOrder(key_in, a, b, wc, i + 1))

\* Array Comparator over two vectors
compare_arrays(key_in, a, b, wc) ==
    IF wc.config.array_same_order
    THEN SameOrder(key_in, a, b, wc, 1)
    ELSE InSlot(4, unordered_array_diffs(key_in, a, b))

-----------------------------------------------------------------------------
(* Diff Finders and collect_data *)

\* one finder at the key k of a: a shared key goes through the dispatcher
\* and the finder keeps the category it is after; a key only a has is a
\* KeyDiff, which only the key finder records
WalkKey(category, key_in, a, b, wc, k) ==
    IF k \notin DOMAIN a THEN <<>>
    ELSE IF k \in DOMAIN b
         THEN compare_field(ChildKey(key_in, k), a[k], b[k], wc)[category]
         ELSE IF category = 1
              THEN <<KeyDiff(ChildKey(key_in, k), wc.file_a.name, wc.file_b.name)>>
              ELSE <<>>

RECURSIVE WalkKeysOfA(_, _, _, _, _, _)

\* one finder's walk over the keys KeyOrder[i..] of a
WalkKeysOfA(category, key_in, a, b, wc, i) ==
    IF i > Len(KeyOrder) THEN <<>>
    ELSE WalkKey(category, key_in, a, b, wc, KeyOrder[i])
            \o WalkKeysOfA(category, key_in, a, b, wc, i + 1)

\* the end of a finder's walk: the keys only b has, for the key finder
WalkRemainder(category, key_in, a, b, wc) ==
    IF category = 1 THEN KeysOnlyInB(key_in, a, b, wc, 1) ELSE <<>>

\* Diff Finders: each walks the two root objects on its own
find_key_diffs(key_in, a, b, wc) ==
    WalkKeysOfA(1, key_in, a, b, wc, 1) \o WalkRemainder(1, key_in, a, b, wc)

find_type_diffs(key_in, a, b, wc) ==
    WalkKeysOfA(2, key_in, a, b, wc, 1) \o WalkRemainder(2, key_in, a, b, wc)

find_value_diffs(key_in, a, b, wc) ==
    WalkKeysOfA(3, key_in, a, b, wc, 1) \o WalkRemainder(3, key_in, a, b, wc)

find_array_diffs(key_in, a, b, wc) ==
    WalkKeysOfA(4, key_in, a, b, wc, 1) \o WalkRemainder(4, key_in, a, b, wc)

None == <<>>

Some(x) == <<x>>

\* collect_data with the type category under the key flag
collect_data_TypeUnderKeyFlag(data1, data2, wc, cfg) ==
    << IF cfg.check_for_key_diffs THEN Some(find_key_diffs("", data1, data2, wc)) ELSE None,
       IF cfg.check_for_key_diffs THEN Some(find_type_diffs("", data1, data2, wc)) ELSE None,
       IF cfg.check_for_value_diffs THEN Some(find_value_diffs("", data1, data2, wc)) ELSE None,
       IF cfg.check_for_array_diffs THEN Some(find_array_diffs("", data1, data2, wc)) ELSE None >>

\* the front end's collect_data: bool::then over the four category flags
collect_data(data1, data2, wc, cfg) ==
    << IF cfg.check_for_key_diffs THEN Some(find_key_diffs("", data1, data2, wc)) ELSE None,
       IF cfg.check_for_type_diffs THEN Some(find_type_diffs("", data1, data2, wc)) ELSE None,
       IF cfg.check_for_value_diffs THEN Some(find_value_diffs("", data1, data2, wc)) ELSE None,
       IF cfg.check_for_array_diffs THEN Some(find_array_diffs("", data1, data2, wc)) ELSE None >>

\* the finders collect_data calls: bool::then runs its closure only on true
then_closures(cfg) ==
    (IF cfg.check_for_key_diffs THEN {"find_key_diffs"} ELSE {}) \cup
    (IF cfg.check_for_type_diffs THEN {"find_type_diffs"} ELSE {}) \cup
    (IF cfg.check_for_value_diffs THEN {"find_value_diffs"} ELSE {}) \cup
    (IF cfg.check_for_array_diffs THEN {"find_array_diffs"} ELSE {})

-----------------------------------------------------------------------------
(* The tables of the front end *)

CHECKMARK == "\\u{2713}"

MULTIPLY == "\\u{00D7}"

\* TableCell::new of a plain string
TableCell(text) == [text |-> text, color |-> "none"]

\* str.color(color): a ColoredString
Colored(text, color) == [text |-> text, color |-> color]

\* the JSON documents the texts of the diff records are read back as
JsonValues ==
    {Null, Bool(TRUE), Bool(FALSE), Number(1), Number(2), String("a"), String("b"),
     Array(<<>>), Array(<<Number(1)>>), Array(<<Number(2)>>),
     Array(<<Number(1), Number(2)>>), Array(<<Number(2), Number(1)>>),
     Object(EmptyMap), Object([k \in {"x"} |-> Number(1)]),
     Object([k \in {"y"} |-> Null])}

\* serde_json::from_str::<Value>: the document of a JSON text, None for a
\* text that is not JSON
from_str(json_str) ==
    LET parsed == {v \in JsonValues : Serialize(v) = json_str}
    IN  IF parsed = {} THEN None ELSE Some(CHOOSE v \in parsed : TRUE)

RECURSIVE Indent(_), to_string_pretty(_, _), PrettyElems(_, _, _), PrettyEntries(_, _, _, _)

Indent(depth) ==
    IF depth = 0 THEN "" ELSE "  " \o Indent(depth - 1)

\* the elements s[i..] of an array, one to a line
PrettyElems(s, i, depth) ==
    IF i > Len(s) THEN ""
    ELSE Indent(depth) \o to_string_pretty(s[i], depth)
         \o (IF i < Len(s) THEN ",\n" ELSE "\n") \o PrettyElems(s, i + 1, depth)

\* the entries of a map for the keys KeyOrder[i..], one to a line
PrettyEntries(m, i, first, depth) ==
    IF i > Len(KeyOrder) THEN "\n"
    ELSE IF KeyOrder[i] \in DOMAIN m
         THEN (IF first THEN "" ELSE ",\n") \o Indent(depth) \o "\"" \o KeyOrder[i]
              \o "\": " \o to_string_pretty(m[KeyOrder[i]], depth)
              \o PrettyEntries(m, i + 1, FALSE, depth)
         ELSE PrettyEntries(m, i + 1, first, depth)

\* serde_json::to_string_pretty of a value that starts at the given depth
to_string_pretty(value, depth) ==
    CASE value.kind = "Array" ->
            IF value.v = <<>> THEN "[]"
            ELSE "[\n" \o PrettyElems(value.v, 1, depth + 1) \o Indent(depth) \o "]"
      [] value.kind = "Object" ->
            IF DOMAIN value.v = {} THEN "{}"
            ELSE "{\n" \o PrettyEntries(value.v, 1, TRUE, depth + 1) \o Indent(depth) \o "}"
      [] OTHER -> Serialize(value)

\* a text that is JSON is printed pretty, any other text as it is
sanitize_json_str(json_str) ==
    LET parsed == from_str(json_str)
    IN  IF parsed = None THEN json_str ELSE to_string_pretty(parsed[1], 0)

\* the title row and the row of the column heads
TableHeader(title, wc) ==
    << <<TableCell(title)>>,
       <<TableCell("Key"), TableCell(wc.file_a.name), TableCell(wc.file_b.name)>> >>

add_key_table_header(wc) == TableHeader("Key Differences", wc)

\* check_has looking at the side that misses the key
check_has_Misses(file_name, key_diff) ==
    IF key_diff.misses = file_name
    THEN Colored(CHECKMARK, "Green")
    ELSE Colored(MULTIPLY, "Red")

check_has(file_name, key_diff) ==
    IF key_diff.has = file_name
    THEN Colored(CHECKMARK, "Green")
    ELSE Colored(MULTIPLY, "Red")

add_key_table_rows(data, wc) ==
    [i \in 1..Len(data) |->
        <<TableCell(data[i].key),
          check_has(wc.file_a.name, data[i]),
          check_has(wc.file_b.name, data[i])>>]

create_table_key_diff(data, wc) ==
    add_key_table_header(wc) \o add_key_table_rows(data, wc)

add_type_table_header(wc) == TableHeader("Type Differences", wc)

add_type_table_rows(data) ==
    [i \in 1..Len(data) |->
        <<TableCell(data[i].key), TableCell(data[i].type1), TableCell(data[i].type2)>>]

create_table_type_diff(data, wc) ==
    add_type_table_header(wc) \o add_type_table_rows(data)

add_value_table_header(wc) == TableHeader("Value Differences", wc)

add_value_table_rows(data) ==
    [i \in 1..Len(data) |->
        <<TableCell(data[i].key),
          TableCell(sanitize_json_str(data[i].value1)),
          TableCell(sanitize_json_str(data[i].value2))>>]

create_table_value_diff(data, wc) ==
    add_value_table_header(wc) \o add_value_table_rows(data)

add_array_table_header(wc) == TableHeader("Array Differences", wc)

\* the four arms of the match on the descriptor
get_array_table_cell_value(descriptor, value_str) ==
    CASE descriptor = "AHas" -> value_str
      [] descriptor = "AMisses" -> value_str
      [] descriptor = "BHas" -> value_str
      [] descriptor = "BMisses" -> value_str

add_array_table_rows(data) ==
    [i \in 1..Len(data) |->
        LET value_str == sanitize_json_str(data[i].value)
        IN  <<TableCell(data[i].key),
              TableCell(get_array_table_cell_value(data[i].descriptor, value_str)),
              TableCell(get_array_table_cell_value(data[i].descriptor, value_str))>>]

create_table_array_diff(data, wc) ==
    add_array_table_header(wc) \o add_array_table_rows(data)

\* Option::filter(|d| !d.is_empty())
NotEmpty(option) ==
    IF option = None THEN FALSE ELSE option[1] # <<>>

\* render_tables printing the array table before the value table
render_tables_ArrayBeforeValue(key_diff, type_diff, value_diff, array_diff, wc) ==
    (IF NotEmpty(key_diff) THEN <<create_table_key_diff(key_diff[1], wc)>> ELSE <<>>)
    \o (IF NotEmpty(type_diff) THEN <<create_table_type_diff(type_diff[1], wc)>> ELSE <<>>)
    \o (IF NotEmpty(array_diff) THEN <<create_table_array_diff(array_diff[1], wc)>> ELSE <<>>)
    \o (IF NotEmpty(value_diff) THEN <<create_table_value_diff(value_diff[1], wc)>> ELSE <<>>)

\* render_tables: the tables printed, each category that is there and not
\* empty, in the order key, type, value, array
render_tables(key_diff, type_diff, value_diff, array_diff, wc) ==
    (IF NotEmpty(key_diff) THEN <<create_table_key_diff(key_diff[1], wc)>> ELSE <<>>)
    \o (IF NotEmpty(type_diff) THEN <<create_table_type_diff(type_diff[1], wc)>> ELSE <<>>)
    \o (IF NotEmpty(value_diff) THEN <<create_table_value_diff(value_diff[1], wc)>> ELSE <<>>)
    \o (IF NotEmpty(array_diff) THEN <<create_table_array_diff(array_diff[1], wc)>> ELSE <<>>)

-----------------------------------------------------------------------------
(* The inputs *)

FILE_NAME_A == "a.json"

FILE_NAME_B == "b.json"

\* WorkingContext::new(file_a, file_b, Config::new(array_same_order))
WorkingContext(name_a, name_b, same_order) ==
    [file_a |-> [name |-> name_a], file_b |-> [name |-> name_b],
     config |-> [array_same_order |-> same_order]]

\* two different files, or one file compared with itself, in either array mode
Contexts ==
    {WorkingContext(FILE_NAME_A, n, o) : n \in {FILE_NAME_A, FILE_NAME_B}, o \in BOOLEAN}

\* the category flags of the front end's Config
Configs ==
    [check_for_key_diffs : BOOLEAN, check_for_type_diffs : BOOLEAN,
     check_for_value_diffs : BOOLEAN, check_for_array_diffs : BOOLEAN]

NoChecks ==
    [check_for_key_diffs |-> FALSE, check_for_type_diffs |-> FALSE,
     check_for_value_diffs |-> FALSE, check_for_array_diffs |-> FALSE]

\* all maps from a subset of the keys K to values of S
MapsOver(K, S) ==
    UNION {[D -> S] : D \in SUBSET K}

\* all vectors of at most MaxLen values of S
VecsOver(S) ==
    UNION {[1..n -> S] : n \in 0..MaxLen}

Primitives ==
    {Null, Bool(TRUE), Bool(FALSE), Number(1), Number(2), String("a"), String("b")}

\* what the arrays of the field inputs hold
Elements ==
    {Null, Number(1), Object([k \in {"x"} |-> Number(1)])}

\* what the objects of the field inputs hold
Members ==
    {Null, Number(1), Number(2), Array(<<Number(1)>>)}

\* the values compare_field is applied to
FieldValues ==
    Primitives \cup {Array(s) : s \in VecsOver(Elements)}
               \cup {Object(m) : m \in MapsOver(Keys, Members)}

\* the paths compare_field is applied at: the root and a field below it
FieldKeys == {"", "v"}

\* the keys of the root objects
DocumentKeys == {"x", "y"}

\* what the fields of the documents hold
DocumentMembers ==
    {Null, Number(1), String("a"),
     Array(<<Number(1), Number(2)>>), Array(<<Number(2), Number(1)>>),
     Object([k \in {"x"} |-> Number(1)]), Object([k \in {"y"} |-> Null])}

\* the root objects collect_data is applied to
Documents ==
    {Object(m) : m \in MapsOver(DocumentKeys, DocumentMembers)}

-----------------------------------------------------------------------------
(* Files, saved sessions and the operations of a run *)

\* Result
Ok(x) == [ok |-> TRUE, v |-> x]

Err(e) == [ok |-> FALSE, v |-> e]

\* how a call ended: it returned a value, or it panicked and the process
\* is gone; failure is what went wrong below it, "io" for a file that could
\* not be opened, created or written, "data" for a document that did not parse
Returned(value) == [panicked |-> FALSE, failure |-> "none", value |-> value]

Panicked(failure) == [panicked |-> TRUE, failure |-> failure, value |-> <<>>]

\* what a path holds: nothing, text that is not the JSON expected, a document
Missing == [state |-> "missing", json |-> Null]

Malformed == [state |-> "malformed", json |-> Null]

JsonFile(value) == [state |-> "json", json |-> value]

\* libdtf's read_json_file: the root object of the document at the path
read_json_file(files, path) ==
    IF files[path].state = "missing" THEN Err("io")
    ELSE IF files[path].state = "malformed" THEN Err("data")
    ELSE IF files[path].json.kind # "Object" THEN Err("data")
    ELSE Ok(files[path].json.v)

\* Config::new
Config(key_diffs, type_diffs, value_diffs, array_diffs, read_from, write_to, file_a, file_b, same_order) ==
    [check_for_key_diffs |-> key_diffs, check_for_type_diffs |-> type_diffs,
     check_for_value_diffs |-> value_diffs, check_for_array_diffs |-> array_diffs,
     read_from_file |-> read_from, write_to_file |-> write_to,
     file_a |-> file_a, file_b |-> file_b, array_same_order |-> same_order]

\* SavedConfig::new
SavedConfig(key_diffs, type_diffs, value_diffs, array_diffs, file_a, file_b, same_order) ==
    [check_for_key_diffs |-> key_diffs, check_for_type_diffs |-> type_diffs,
     check_for_value_diffs |-> value_diffs, check_for_array_diffs |-> array_diffs,
     file_a |-> file_a, file_b |-> file_b, array_same_order |-> same_order]

\* SavedContext::new
SavedContext(key_diff, type_diff, value_diff, array_diff, saved_config) ==
    [key_diff |-> key_diff, type_diff |-> type_diff, value_diff |-> value_diff,
     array_diff |-> array_diff, config |-> saved_config]

\* the front end's WorkingContext::new
TerminalWorkingContext(lib_working_context, cfg) ==
    [lib_working_context |-> lib_working_context, config |-> cfg]

KeyDiffFields == {"key", "has", "misses"}

TypeDiffFields == {"key", "type1", "type2"}

ValueDiffFields == {"key", "value1", "value2"}

ArrayDiffFields == {"key", "descriptor", "value"}

\* Serialize of a diff record: an object of strings, a descriptor by its name
SerializeDiff(diff) ==
    Object([f \in DOMAIN diff |-> String(diff[f])])

\* Serialize of a Vec of diff records
SerializeDiffs(diffs) ==
    Array([i \in 1..Len(diffs) |-> SerializeDiff(diffs[i])])

\* derive(Serialize) of SavedConfig
SerializeSavedConfig(saved_config) ==
    Object([f \in DOMAIN saved_config |->
               IF f \in {"file_a", "file_b"}
               THEN String(saved_config[f]) ELSE Bool(saved_config[f])])

\* derive(Serialize) of SavedContext
SerializeSavedContext(saved) ==
    Object([f \in DOMAIN saved |->
               IF f = "config" THEN SerializeSavedConfig(saved[f])
               ELSE SerializeDiffs(saved[f])])

\* the object has the fields, each of them of the kind asked for
HasFields(value, fields, kind) ==
    /\ value.kind = "Object"
    /\ fields \subseteq DOMAIN value.v
    /\ \A f \in fields : value.v[f].kind = kind

\* the value deserializes as a Vec of diff records with the fields
IsDiffs(value, fields) ==
    /\ value.kind = "Array"
    /\ \A i \in DOMAIN value.v :
          /\ HasFields(value.v[i], fields, "String")
          /\ "descriptor" \in fields => value.v[i].v["descriptor"].v \in ArrayDiffDesc

\* Deserialize of a Vec of diff records
DeserializeDiffs(value, fields) ==
    [i \in 1..Len(value.v) |-> [f \in fields |-> value.v[i].v[f].v]]

FlagFields ==
    {"check_for_key_diffs", "check_for_type_diffs", "check_for_value_diffs",
     "check_for_array_diffs", "array_same_order"}

\* the value deserializes as a SavedConfig
IsSavedConfig(value) ==
    /\ HasFields(value, FlagFields, "Bool")
    /\ HasFields(value, {"file_a", "file_b"}, "String")

\* the value deserializes as a SavedContext
IsSavedContext(value) ==
    /\ value.kind = "Object"
    /\ {"key_diff", "type_diff", "value_diff", "array_diff", "config"}
           \subseteq DOMAIN value.v
    /\ IsDiffs(value.v["key_diff"], KeyDiffFields)
    /\ IsDiffs(value.v["type_diff"], TypeDiffFields)
    /\ IsDiffs(value.v["value_diff"], ValueDiffFields)
    /\ IsDiffs(value.v["array_diff"], ArrayDiffFields)
    /\ IsSavedConfig(value.v["config"])

\* derive(Deserialize) of SavedContext
DeserializeSavedContext(value) ==
    LET c == value.v["config"].v
    IN  SavedContext(DeserializeDiffs(value.v["key_diff"], KeyDiffFields),
                     DeserializeDiffs(value.v["type_diff"], TypeDiffFields),
                     DeserializeDiffs(value.v["value_diff"], ValueDiffFields),
                     DeserializeDiffs(value.v["array_diff"], ArrayDiffFields),
                     SavedConfig(c["check_for_key_diffs"].v, c["check_for_type_diffs"].v,
                                 c["check_for_value_diffs"].v, c["check_for_array_diffs"].v,
                                 c["file_a"].v, c["file_b"].v, c["array_same_order"].v))

\* serde_json::from_reader::<SavedContext>
from_reader(file) ==
    IF file.state = "json" /\ IsSavedContext(file.json)
    THEN Ok(DeserializeSavedContext(file.json))
    ELSE Err("data")

\* parse_args: the two documents and the Config of the command line
parse_args(files, arguments) ==
    LET fresh == arguments.read_from_file = ""
        read1 == IF fresh THEN read_json_file(files, arguments.check_files[1]) ELSE Ok(<<>>)
        read2 == IF fresh THEN read_json_file(files, arguments.check_files[2]) ELSE Ok(<<>>)
    IN  IF ~read1.ok THEN Panicked(read1.v)
        ELSE IF ~read2.ok THEN Panicked(read2.v)
        ELSE Returned(
                << IF fresh THEN Some(read1.v) ELSE None,
                   IF fresh THEN Some(read2.v) ELSE None,
                   Config(arguments.key_diffs, arguments.type_diffs,
                          arguments.value_diffs, arguments.array_diffs,
                          arguments.read_from_file, arguments.write_to_file,
                          IF fresh THEN Some(arguments.check_files[1]) ELSE None,
                          IF fresh THEN Some(arguments.check_files[2]) ELSE None,
                          arguments.array_same_order) >>)

\* read_from_file: File::open or panic, then the SavedContext or the error
\* of serde_json
read_from_file(files, file_path) ==
    IF files[file_path].state = "missing" THEN Panicked("io")
    ELSE Returned(from_reader(files[file_path]))

\* create_working_context that keeps the category flags of the command line
create_working_context_FlagsOfCommandLine(files, cfg) ==
    IF cfg.read_from_file = ""
    THEN Returned(TerminalWorkingContext(
                      WorkingContext(cfg.file_a[1], cfg.file_b[1], cfg.array_same_order),
                      cfg))
    ELSE LET read == read_from_file(files, cfg.read_from_file)
         IN  IF read.panicked THEN read
             ELSE IF ~read.value.ok THEN Panicked(read.value.v)
             ELSE LET saved_config == read.value.v.config
                  IN  Returned(TerminalWorkingContext(
                          WorkingContext(saved_config.file_a, saved_config.file_b,
                                         saved_config.array_same_order),
                          Config(cfg.check_for_key_diffs,
                                 cfg.check_for_type_diffs,
                                 cfg.check_for_value_diffs,
                                 cfg.check_for_array_diffs,
                                 cfg.read_from_file, cfg.write_to_file,
                                 Some(saved_config.file_a), Some(saved_config.file_b),
                                 saved_config.array_same_order)))

\* create_working_context: from the Config of the command line, or from the
\* config of the saved session (unwrap panics on the error of read_from_file)
create_working_context(files, cfg) ==
    IF cfg.read_from_file = ""
    THEN Returned(TerminalWorkingContext(
                      WorkingContext(cfg.file_a[1], cfg.file_b[1], cfg.array_same_order),
                      cfg))
    ELSE LET read == read_from_file(files, cfg.read_from_file)
         IN  IF read.panicked THEN read
             ELSE IF ~read.value.ok THEN Panicked(read.value.v)
             ELSE LET saved_config == read.value.v.config
                  IN  Returned(TerminalWorkingContext(
                          WorkingContext(saved_config.file_a, saved_config.file_b,
                                         saved_config.array_same_order),
                          Config(saved_config.check_for_key_diffs,
                                 saved_config.check_for_type_diffs,
                                 saved_config.check_for_value_diffs,
                                 saved_config.check_for_array_diffs,
                                 cfg.read_from_file, cfg.write_to_file,
                                 Some(saved_config.file_a), Some(saved_config.file_b),
                                 saved_config.array_same_order)))

\* Option::unwrap_or(vec![])
unwrap_or_empty(option) ==
    IF option = None THEN <<>> ELSE option[1]

\* write_to_file answering Ok(()) to the error of serde_json::to_writer
write_to_file_FailedWriteOk(key_diff_option, type_diff_option, value_diff_option, array_diff_option, cfg, files, created, flushed) ==
    LET key_diff == unwrap_or_empty(key_diff_option)
        type_diff == unwrap_or_empty(type_diff_option)
        value_diff == unwrap_or_empty(value_diff_option)
        array_diff == unwrap_or_empty(array_diff_option)
    IN  IF cfg.write_to_file = None
        THEN [call |-> Returned(Err("()")), files |-> files]
        ELSE LET path == cfg.write_to_file[1]
             IN  IF ~created
                 THEN [call |-> Panicked("io"), files |-> files]
                 ELSE IF cfg.file_a = None \/ cfg.file_b = None
                 THEN [call |-> Panicked("none"),
                       files |-> [files EXCEPT ![path] = Malformed]]
                 ELSE IF ~flushed
                 THEN [call |-> Returned(Ok("()")),
                       files |-> [files EXCEPT ![path] = Malformed]]
                 ELSE [call |-> Returned(Ok("()")),
                       files |-> [files EXCEPT ![path] = JsonFile(
                           SerializeSavedContext(SavedContext(
                               key_diff, type_diff, value_diff, array_diff,
                               SavedConfig(cfg.check_for_key_diffs,
                                           cfg.check_for_type_diffs,
                                           cfg.check_for_value_diffs,
                                           cfg.check_for_array_diffs,
                                           cfg.file_a[1], cfg.file_b[1],
                                           cfg.array_same_order))))]]

\* write_to_file: what it returns or how it panics, and what the path holds
\* afterwards; created says whether File::create succeeded, flushed whether
\* serde_json::to_writer did
write_to_file(key_diff_option, type_diff_option, value_diff_option, array_diff_option, cfg, files, created, flushed) ==
    LET key_diff == unwrap_or_empty(key_diff_option)
        type_diff == unwrap_or_empty(type_diff_option)
        value_diff == unwrap_or_empty(value_diff_option)
        array_diff == unwrap_or_empty(array_diff_option)
    IN  IF cfg.write_to_file = None
        THEN [call |-> Returned(Err("()")), files |-> files]
        ELSE LET path == cfg.write_to_file[1]
             IN  IF ~created
                 THEN [call |-> Panicked("io"), files |-> files]
                 ELSE IF cfg.file_a = None \/ cfg.file_b = None
                 THEN [call |-> Panicked("none"),
                       files |-> [files EXCEPT ![path] = Malformed]]
                 ELSE IF ~flushed
                 THEN [call |-> [Returned(Err("()")) EXCEPT !.failure = "io"],
                       files |-> [files EXCEPT ![path] = Malformed]]
                 ELSE [call |-> Returned(Ok("()")),
                       files |-> [files EXCEPT ![path] = JsonFile(
                           SerializeSavedContext(SavedContext(
                               key_diff, type_diff, value_diff, array_diff,
                               SavedConfig(cfg.check_for_key_diffs,
                                           cfg.check_for_type_diffs,
                                           cfg.check_for_value_diffs,
                                           cfg.check_for_array_diffs,
                                           cfg.file_a[1], cfg.file_b[1],
                                           cfg.array_same_order))))]]

\* how a run stands or ended: kind is "running", "Ok", "Err" or "panic",
\* error the value of the Err, failure what went wrong in a file and during
\* whether that was while loading or while writing
Running == [kind |-> "running", failure |-> "none", error |-> "none", during |-> "none"]

Exited(kind, failure, error, during) ==
    [kind |-> kind, failure |-> failure, error |-> error, during |-> during]

\* no run of the front end: the operation is applied on its own
NoRun ==
    /\ args = <<>>
    /\ disk = <<>>
    /\ outcome = <<>>
    /\ written = <<>>

-----------------------------------------------------------------------------
(* The dispatcher applied to one field *)

Init ==
    /\ working_context \in Contexts
    /\ config = NoChecks
    /\ key \in FieldKeys
    /\ a_value \in FieldValues
    /\ b_value \in FieldValues
    /\ pc = "start"
    /\ arms = {}
    /\ result = EmptyResult
    /\ collected = <<None, None, None, None>>
    /\ invoked = {}
    /\ tasks = <<>>
    /\ stack = <<>>
    /\ tables = <<>>
    /\ NoRun

CompareField ==
    /\ pc = "start"
    /\ arms' = MatchingArms(a_value, b_value)
    /\ result' = compare_field(key, a_value, b_value, working_context)
    /\ pc' = "field"
    /\ UNCHANGED <<working_context, config, key, a_value, b_value, collected, invoked,
                   tasks, stack, tables, runVars>>

Next == CompareField

Spec == Init /\ [][Next]_vars

-----------------------------------------------------------------------------
(* collect_data applied to two documents *)

InitCollect ==
    /\ working_context \in Contexts
    /\ config = NoChecks
    /\ key = ""
    /\ a_value \in Documents
    /\ b_value \in Documents
    /\ pc = "start"
    /\ arms = {}
    /\ result = EmptyResult
    /\ collected = <<None, None, None, None>>
    /\ invoked = {}
    /\ tasks = <<>>
    /\ stack = <<>>
    /\ tables = <<>>
    /\ NoRun

CollectData ==
    /\ pc = "start"
    /\ \E cfg \in Configs :
          /\ config' = cfg
          /\ collected' = collect_data(a_value.v, b_value.v, working_context, cfg)
          /\ invoked' = then_closures(cfg)
    /\ pc' = "collected"
    /\ UNCHANGED <<working_context, key, a_value, b_value, arms, result, tasks, stack, tables,
                   runVars>>

NextCollect == CollectData

SpecCollect == InitCollect /\ [][NextCollect]_vars

-----------------------------------------------------------------------------
(* The dispatcher applied to two arrays *)

\* what the arrays of the array inputs hold
ArrayElements ==
    {Null, Number(1), Number(2), String("a"), String("b")}

\* the arrays compare_field is applied to
ArrayValues ==
    {Array(s) : s \in VecsOver(ArrayElements)}

InitArrays ==
    /\ working_context \in Contexts
    /\ config = NoChecks
    /\ key \in FieldKeys
    /\ a_value \in ArrayValues
    /\ b_value \in ArrayValues
    /\ pc = "start"
    /\ arms = {}
    /\ result = EmptyResult
    /\ collected = <<None, None, None, None>>
    /\ invoked = {}
    /\ tasks = <<>>
    /\ stack = <<>>
    /\ tables = <<>>
    /\ NoRun

NextArrays == CompareField

SpecArrays == InitArrays /\ [][NextArrays]_vars

-----------------------------------------------------------------------------
(* The four finders run as concurrent tasks *)

\* the step after the last key of a: the remainder of the walk
LastStep == Len(KeyOrder) + 1

\* the root objects the tasks read
TaskDocuments ==
    { Object([k \in {"x", "y"} |-> IF k = "x" THEN Number(1)
                                    ELSE Array(<<Number(1), Number(2)>>)]),
      Object([k \in {"x", "y"} |-> IF k = "x" THEN String("a")
                                    ELSE Array(<<Number(2), Number(1)>>)]),
      Object([k \in {"y", "z"} |-> IF k = "y" THEN Array(<<Number(2)>>) ELSE Null]),
      Object([k \in {"x", "y", "z"} |->
                 CASE k = "x" -> Object([j \in {"x", "y"} |-> Number(1)])
                   [] k = "y" -> Array(<<Number(1), Number(2)>>)
                   [] k = "z" -> Number(1)]),
      Object([k \in {"x", "y", "z"} |->
                 CASE k = "x" -> Object([j \in {"x"} |-> String("a")])
                   [] k = "y" -> Array(<<Number(2)>>)
                   [] k = "z" -> Number(2)]) }

InitTasks ==
    /\ working_context \in Contexts
    /\ config = NoChecks
    /\ key = ""
    /\ a_value \in TaskDocuments
    /\ b_value \in TaskDocuments
    /\ pc = "tasks"
    /\ arms = {}
    /\ result = EmptyResult
    /\ collected = <<None, None, None, None>>
    /\ invoked = {}
    /\ tasks = [c \in 1..4 |-> [step |-> 1, found |-> <<>>]]
    /\ stack = <<>>
    /\ tables = <<>>
    /\ NoRun

\* every task appends to the one vector
Accumulate_SharedVector(ts, c, found) ==
    [d \in DOMAIN ts |-> [step |-> IF d = c THEN ts[d].step + 1 ELSE ts[d].step,
                          found |-> ts[d].found \o found]]

\* a task appends what it found to its own vector and moves on
Accumulate(ts, c, found) ==
    [ts EXCEPT ![c] = [step |-> @.step + 1, found |-> @.found \o found]]

\* the finder of category c takes its next step: one key of a, or the
\* remainder; it reads the documents and the context through shared
\* references
TaskStep(c) ==
    /\ pc = "tasks"
    /\ tasks[c].step <= LastStep
    /\ tasks' = Accumulate(tasks, c,
                    IF tasks[c].step < LastStep
                    THEN WalkKey(c, "", a_value.v, b_value.v, working_context,
                                 KeyOrder[tasks[c].step])
                    ELSE WalkRemainder(c, "", a_value.v, b_value.v, working_context))
    /\ UNCHANGED <<working_context, config, key, a_value, b_value, pc, arms, result,
                   collected, invoked, stack, tables, runVars>>

NextTasks == \E c \in 1..4 : TaskStep(c)

SpecTasks == InitTasks /\ [][NextTasks]_vars

-----------------------------------------------------------------------------
(* render_tables applied to the diffs of the four categories *)

\* an Option over the values of S
Options(S) == {None} \cup {Some(x) : x \in S}

\* key diffs of the key x between the two files, in every combination
TableKeyDiffs ==
    {KeyDiff("x", has, misses) : has \in {FILE_NAME_A, FILE_NAME_B},
                                 misses \in {FILE_NAME_A, FILE_NAME_B}}

TableTypeDiffs == {TypeDiff("x", "string", "number")}

TableValueDiffs == {ValueDiff("v", "a", "[1,2]")}

\* array diffs of the element 1 under every descriptor, and of an array
TableArrayDiffs ==
    {ArrayDiff("arr", descriptor, "1") : descriptor \in ArrayDiffDesc}
        \cup {ArrayDiff("arr", "AHas", "[1,2]")}

InitTables ==
    /\ working_context \in Contexts
    /\ config = NoChecks
    /\ key = ""
    /\ a_value = Null
    /\ b_value = Null
    /\ pc = "start"
    /\ arms = {}
    /\ result = EmptyResult
    /\ collected \in Options(VecsOver(TableKeyDiffs))
                      \X Options({<<d>> : d \in TableTypeDiffs})
                      \X Options({<<d>> : d \in TableValueDiffs})
                      \X Options(VecsOver(TableArrayDiffs))
    /\ invoked = {}
    /\ tasks = <<>>
    /\ stack = <<>>
    /\ tables = <<>>
    /\ args = <<>>
    /\ disk = <<>>
    /\ outcome = Running
    /\ written = <<>>

\* render_tables prints its tables and returns Ok(())
RenderTables ==
    /\ pc = "start"
    /\ tables' = render_tables(collected[1], collected[2], collected[3], collected[4],
                               working_context)
    /\ outcome' = Exited("Ok", "none", "none", "none")
    /\ pc' = "rendered"
    /\ UNCHANGED <<working_context, config, key, a_value, b_value, arms, result,
                   collected, invoked, tasks, stack, args, disk, written>>

NextTables == RenderTables

SpecTables == InitTables /\ [][NextTables]_vars

-----------------------------------------------------------------------------
(* Runs of the front end: parse_args, create_working_context, then the diffs
   collected or loaded, then written to a file or rendered *)

\* the path sessions are saved to and read from
SavedPath == "saved.json"

Paths == {FILE_NAME_A, FILE_NAME_B, SavedPath}

\* the documents of the two files
DocumentA ==
    Object([k \in {"x", "y"} |->
               IF k = "x" THEN Number(1) ELSE Array(<<Number(1), Number(2)>>)])

DocumentB ==
    Object([k \in {"x", "y", "z"} |->
               CASE k = "x" -> String("a")
                 [] k = "y" -> Array(<<Number(2)>>)
                 [] k = "z" -> Null])

\* the command lines clap accepts: at least one category, and either the
\* two files to check or the saved session to read
Arguments ==
    {a \in [check_files : {<<>>, <<FILE_NAME_A, FILE_NAME_B>>},
            read_from_file : {"", SavedPath},
            write_to_file : {None, Some(SavedPath)},
            key_diffs : BOOLEAN, type_diffs : BOOLEAN,
            value_diffs : BOOLEAN, array_diffs : BOOLEAN,
            array_same_order : BOOLEAN] :
        /\ (a.check_files = <<>>) # (a.read_from_file = "")
        /\ a.key_diffs \/ a.type_diffs \/ a.value_diffs \/ a.array_diffs}

\* the libdtf WorkingContext before create_working_context made one
NoContext == WorkingContext("", "", FALSE)

InitRun ==
    /\ working_context = NoContext
    /\ config = NoChecks
    /\ key = ""
    /\ a_value = None
    /\ b_value = None
    /\ pc = "start"
    /\ arms = {}
    /\ result = EmptyResult
    /\ collected = <<None, None, None, None>>
    /\ invoked = {}
    /\ tasks = <<>>
    /\ stack = <<>>
    /\ tables = <<>>
    /\ args = <<>>
    /\ disk \in [Paths -> {Missing, Malformed, JsonFile(DocumentA), JsonFile(DocumentB)}]
    /\ disk[FILE_NAME_A] \in {Missing, Malformed, JsonFile(DocumentA)}
    /\ disk[FILE_NAME_B] \in {Missing, Malformed, JsonFile(DocumentB)}
    /\ disk[SavedPath] \in {Missing, Malformed, JsonFile(DocumentA)}
    /\ outcome = Running
    /\ written = None

\* the process reads its command line and the two documents
ParseArgs ==
    /\ pc = "start"
    /\ \E arguments \in Arguments :
          LET call == parse_args(disk, arguments)
          IN  /\ args' = arguments
              /\ IF call.panicked
                 THEN /\ pc' = "exit"
                      /\ outcome' = Exited("panic", call.failure, "none", "load")
                      /\ UNCHANGED <<a_value, b_value, config>>
                 ELSE /\ pc' = "parsed"
                      /\ a_value' = call.value[1]
                      /\ b_value' = call.value[2]
                      /\ config' = call.value[3]
                      /\ UNCHANGED outcome
    /\ UNCHANGED <<working_context, key, arms, result, collected, invoked, tasks, stack, tables,
                   disk, written>>

CreateWorkingContext ==
    /\ pc = "parsed"
    /\ LET call == create_working_context(disk, config)
       IN  IF call.panicked
           THEN /\ pc' = "exit"
                /\ outcome' = Exited("panic", call.failure, "none", "load")
                /\ UNCHANGED <<working_context, config>>
           ELSE /\ pc' = "context"
                /\ working_context' = call.value.lib_working_context
                /\ config' = call.value.config
                /\ UNCHANGED outcome
    /\ UNCHANGED <<key, a_value, b_value, arms, result, collected, invoked, tasks, stack, tables,
                   args, disk, written>>

\* the documents of the command line are compared
CollectRun ==
    /\ pc = "context"
    /\ config.read_from_file = ""
    /\ collected' = collect_data(a_value[1], b_value[1], working_context, config)
    /\ invoked' = then_closures(config)
    /\ pc' = "collected"
    /\ UNCHANGED <<working_context, config, key, a_value, b_value, arms, result, tasks, stack,
                   tables, runVars>>

\* the diffs of the saved session stand for the diffs of a comparison
LoadSaved ==
    /\ pc = "context"
    /\ config.read_from_file # ""
    /\ LET call == read_from_file(disk, config.read_from_file)
       IN  /\ ~call.panicked
           /\ call.value.ok
           /\ collected' = << Some(call.value.v.key_diff), Some(call.value.v.type_diff),
                              Some(call.value.v.value_diff), Some(call.value.v.array_diff) >>
    /\ pc' = "collected"
    /\ UNCHANGED <<working_context, config, key, a_value, b_value, arms, result, invoked,
                   tasks, stack, tables, runVars>>

\* write_to_file is called with the diffs and the context
WriteToFile ==
    /\ pc = "collected"
    /\ \E created, flushed \in BOOLEAN :
          LET done == write_to_file(collected[1], collected[2], collected[3],
                                    collected[4], config, disk, created, flushed)
          IN  /\ disk' = done.files
              /\ outcome' =
                    IF done.call.panicked
                    THEN Exited("panic", done.call.failure, "none", "write")
                    ELSE IF done.call.value.ok
                    THEN Exited("Ok", "none", "none", "none")
                    ELSE Exited("Err", done.call.failure, done.call.value.v, "write")
              /\ written' =
                    IF ~done.call.panicked /\ done.call.value.ok
                    THEN Some([working_context |-> working_context, config |-> config,
                               diffs |-> << unwrap_or_empty(collected[1]),
                                            unwrap_or_empty(collected[2]),
                                            unwrap_or_empty(collected[3]),
                                            unwrap_or_empty(collected[4]) >>])
                    ELSE written
    /\ pc' = "exit"
    /\ UNCHANGED <<working_context, config, key, a_value, b_value, arms, result,
                   collected, invoked, tasks, stack, tables, args>>

\* the diffs go to the file the command line names
WriteRun ==
    /\ pc = "collected"
    /\ config.write_to_file # None
    /\ WriteToFile

\* the diffs go to the terminal
RenderRun ==
    /\ pc = "collected"
    /\ config.write_to_file = None
    /\ tables' = render_tables(collected[1], collected[2], collected[3], collected[4],
                               working_context)
    /\ outcome' = Exited("Ok", "none", "none", "none")
    /\ pc' = "exit"
    /\ UNCHANGED <<working_context, config, key, a_value, b_value, arms, result,
                   collected, invoked, tasks, stack, args, disk, written>>

\* the program is started again on the files as they are now
NextRun ==
    /\ pc = "exit"
    /\ pc' = "start"
    /\ working_context' = NoContext
    /\ config' = NoChecks
    /\ a_value' = None
    /\ b_value' = None
    /\ collected' = <<None, None, None, None>>
    /\ invoked' = {}
    /\ tables' = <<>>
    /\ args' = <<>>
    /\ outcome' = Running
    /\ UNCHANGED <<key, arms, result, tasks, stack, disk, written>>

NextRuns ==
    \/ ParseArgs
    \/ CreateWorkingContext
    \/ CollectRun
    \/ LoadSaved
    \/ WriteRun
    \/ RenderRun
    \/ NextRun

SpecRuns == InitRun /\ [][NextRuns]_vars

-----------------------------------------------------------------------------
(* write_to_file applied to the diffs of the four categories *)

\* the Configs of a context made from two files, with and without a path to
\* write to
WriteConfigs ==
    {Config(flags.check_for_key_diffs, flags.check_for_type_diffs,
            flags.check_for_value_diffs, flags.check_for_array_diffs,
            "", write_to, files[1], files[2], same_order) :
        flags \in Configs, write_to \in {None, Some(SavedPath)},
        files \in {<<Some(FILE_NAME_A), Some(FILE_NAME_B)>>, <<None, None>>},
        same_order \in BOOLEAN}

InitWrite ==
    /\ config \in WriteConfigs
    /\ working_context = TerminalWorkingContext(
           WorkingContext(FILE_NAME_A, FILE_NAME_B, config.array_same_order), config)
    /\ key = ""
    /\ a_value = None
    /\ b_value = None
    /\ pc = "collected"
    /\ arms = {}
    /\ result = EmptyResult
    /\ collected \in Options({<<>>} \cup {<<d>> : d \in TableKeyDiffs})
                      \X Options({<<>>} \cup {<<d>> : d \in TableTypeDiffs})
                      \X Options({<<>>} \cup {<<d>> : d \in TableValueDiffs})
                      \X Options({<<>>} \cup {<<d>> : d \in TableArrayDiffs})
    /\ invoked = {}
    /\ tasks = <<>>
    /\ stack = <<>>
    /\ tables = <<>>
    /\ args = <<>>
    /\ disk \in [Paths -> {Missing, Malformed, JsonFile(DocumentA), JsonFile(DocumentB)}]
    /\ disk[FILE_NAME_A] = JsonFile(DocumentA)
    /\ disk[FILE_NAME_B] = JsonFile(DocumentB)
    /\ disk[SavedPath] \in {Missing, Malformed}
    /\ outcome = Running
    /\ written = None

NextWrite == WriteToFile

SpecWrite == InitWrite /\ [][NextWrite]_vars

-----------------------------------------------------------------------------
(* The recursion of a comparison, call by call *)

\* a call of the dispatcher that is pending, depth calls below the root
FieldFrame(key_in, a, b, depth) ==
    [kind |-> "field", key |-> key_in, a |-> a, b |-> b, depth |-> depth,
     diffs |-> EmptyResult]

\* a result a call merges into the accumulator once the calls before it
\* have returned
EmitFrame(diffs, depth) ==
    [kind |-> "emit", key |-> "", a |-> Null, b |-> Null, depth |-> depth,
     diffs |-> diffs]

RECURSIVE ObjectFrames(_, _, _, _, _, _), IndexFrames(_, _, _, _, _)
RECURSIVE IndexFrames_AgainstWholeArray(_, _, _, _, _)

\* what the Object Comparator does for the keys KeyOrder[i..]: a call of the
\* dispatcher for a shared key, a KeyDiff for a key only a has, and at the
\* end the KeyDiffs of the keys only b has
ObjectFrames(key_in, a, b, wc, depth, i) ==
    IF i > Len(KeyOrder)
    THEN <<EmitFrame(InSlot(1, KeysOnlyInB(key_in, a, b, wc, 1)), depth)>>
    ELSE LET k == KeyOrder[i]
             here == IF k \notin DOMAIN a THEN <<>>
                     ELSE IF k \in DOMAIN b
                          THEN <<FieldFrame(ChildKey(key_in, k), a[k], b[k], depth)>>
                          ELSE <<EmitFrame(InSlot(1, <<KeyDiff(ChildKey(key_in, k),
                                                               wc.file_a.name,
                                                               wc.file_b.name)>>), depth)>>
         IN  here \o ObjectFrames(key_in, a, b, wc, depth, i + 1)

\* the ordered mode handing each element of a the whole of b
IndexFrames_AgainstWholeArray(key_in, a, b, depth, i) ==
    IF i > Len(a) /\ i > Len(b) THEN <<>>
    ELSE <<FieldFrame(IndexKey(key_in, i - 1),
                      IF i <= Len(a) THEN a[i] ELSE Null,
                      Array(b), depth)>>
         \o IndexFrames_AgainstWholeArray(key_in, a, b, depth, i + 1)

\* what the Array Comparator does in ordered mode from the position i on: a
\* call of the dispatcher for every index either array has
IndexFrames(key_in, a, b, depth, i) ==
    IF i > Len(a) /\ i > Len(b) THEN <<>>
    ELSE <<FieldFrame(IndexKey(key_in, i - 1),
                      IF i <= Len(a) THEN a[i] ELSE Null,
                      IF i <= Len(b) THEN b[i] ELSE Null, depth)>>
         \o IndexFrames(key_in, a, b, depth, i + 1)

\* what the arm taken for (a, b) leaves pending: the calls of a comparator
\* that recurses, or the result of a handler that does not
Frames(arm, key_in, a, b, wc, depth) ==
    CASE arm.call = "compare_objects" ->
            ObjectFrames(key_in, a.v, b.v, wc, depth + 1, 1)
      [] arm.call = "handle_one_element_null_objects" ->
            ObjectFrames(key_in,
                         IF a.kind = "Object" THEN a.v ELSE EmptyMap,
                         IF b.kind = "Object" THEN b.v ELSE EmptyMap,
                         wc, depth + 1, 1)
      [] arm.call = "compare_arrays" /\ wc.config.array_same_order ->
            IndexFrames(key_in, a.v, b.v, depth + 1, 1)
      [] OTHER -> <<EmitFrame(ApplyArm(arm, key_in, a, b, wc), depth)>>

\* the documents walked: up to four levels of objects and arrays
WalkDocuments ==
    TaskDocuments \cup
    { Object([k \in {"x"} |->
                 Object([j \in {"y"} |->
                     Array(<<Number(1), Object([l \in {"z"} |-> Null])>>)])]),
      Object([k \in {"x"} |->
                 Object([j \in {"y"} |->
                     Array(<<Object([l \in {"z"} |-> Number(1)]), Number(1)>>)])]),
      Object([k \in {"x", "y"} |->
                 IF k = "x" THEN Null
                 ELSE Array(<<Array(<<Number(1)>>), Array(<<Number(2), Number(1)>>)>>)]),
      Object([k \in {"y"} |-> Array(<<Array(<<Number(2)>>)>>)]) }

InitWalk ==
    /\ working_context \in Contexts
    /\ config = NoChecks
    /\ key = ""
    /\ a_value \in WalkDocuments
    /\ b_value \in WalkDocuments
    /\ pc = "walk"
    /\ arms = {}
    /\ result = EmptyResult
    /\ collected = <<None, None, None, None>>
    /\ invoked = {}
    /\ tasks = <<>>
    /\ stack = <<FieldFrame("", a_value, b_value, 0)>>
    /\ tables = <<>>
    /\ NoRun

\* the call on top of the stack runs: the match takes its arm, which leaves
\* calls pending or a result to merge
WalkStep ==
    /\ pc = "walk"
    /\ Len(stack) > 0
    /\ LET top == Head(stack)
           matching == MatchingArms(top.a, top.b)
           first == CHOOSE i \in matching : \A j \in matching : i <= j
       IN  IF top.kind = "emit"
           THEN /\ result' = Merge(result, top.diffs)
                /\ stack' = Tail(stack)
                /\ UNCHANGED arms
           ELSE /\ arms' = matching
                /\ stack' = Frames(MatchArms[first], top.key, top.a, top.b,
                                   working_context, top.depth) \o Tail(stack)
                /\ UNCHANGED result
    /\ UNCHANGED <<working_context, config, key, a_value, b_value, pc, collected, invoked,
                   tasks, tables, runVars>>

NextWalk == WalkStep

SpecWalk == InitWalk /\ [][NextWalk]_vars

-----------------------------------------------------------------------------
(* Properties of the dispatcher *)

FieldDone == pc = "field"

NonNull(value) == value.kind # "Null"

IsPrimitive(value) == value.kind \in {"String", "Number", "Bool"}

\* the elements of a sequence
Range(s) == {s[i] : i \in DOMAIN s}

\* the type names of the data model
KindName(kind) ==
    [Null |-> "null", Bool |-> "bool", Number |-> "number",
     String |-> "string", Array |-> "array", Object |-> "object"][kind]

\* C1: compare_field is total over the 36 ordered kind pairs: for the pair
\* of kinds of (a, b) exactly one arm of the match applies, and the call
\* returns a four-way result of key, type, value and array diff records;
\* no pair is left unrouted.
C1_DispatchTotal ==
    FieldDone =>
        /\ Cardinality(arms) = 1
        /\ result # Unrouted
        /\ DOMAIN result = 1..4
        /\ \A d \in Range(result[1]) : DOMAIN d = {"key", "has", "misses"}
        /\ \A d \in Range(result[2]) : DOMAIN d = {"key", "type1", "type2"}
        /\ \A d \in Range(result[3]) : DOMAIN d = {"key", "value1", "value2"}
        /\ \A d \in Range(result[4]) : DOMAIN d = {"key", "descriptor", "value"}

\* C1 witness: the pair of the last arm of the match has been dispatched
C1_Witness ==
    /\ FieldDone
    /\ a_value.kind = "Object"
    /\ b_value.kind = "Number"
    /\ arms = {Len(MatchArms)}

\* C2 as stated: every ordered pair of distinct kinds, Null included, gives
\* exactly one TypeDiff and empty key, value and array diffs.
C2_AnyDistinctKinds ==
    (FieldDone /\ a_value.kind # b_value.kind) =>
        /\ Len(result[2]) = 1
        /\ result[1] = <<>>
        /\ result[3] = <<>>
        /\ result[4] = <<>>

\* C2 amended: every ordered pair of distinct non-null kinds gives exactly
\* one TypeDiff and empty key, value and array diffs.
C2_DistinctNonNullKinds ==
    (FieldDone /\ a_value.kind # b_value.kind /\ NonNull(a_value) /\ NonNull(b_value)) =>
        /\ Len(result[2]) = 1
        /\ result[1] = <<>>
        /\ result[3] = <<>>
        /\ result[4] = <<>>

\* C2 witness: a number against a string has been dispatched
C2_Witness ==
    /\ FieldDone
    /\ a_value.kind = "Number"
    /\ b_value.kind = "String"
    /\ Len(result[2]) = 1

\* C3: two non-null values of different kinds give exactly one TypeDiff, at
\* the field's own path and carrying the two kind names, and nothing else:
\* whatever a composite holds, no diff with a deeper path is produced.
C3_TypeMismatchNotDescended ==
    (FieldDone /\ a_value.kind # b_value.kind /\ NonNull(a_value) /\ NonNull(b_value)) =>
        result = << <<>>,
                    <<TypeDiff(key, KindName(a_value.kind), KindName(b_value.kind))>>,
                    <<>>, <<>> >>

\* C3 witness: an object with members against a string
C3_Witness ==
    /\ FieldDone
    /\ a_value.kind = "Object"
    /\ DOMAIN a_value.v = Keys
    /\ b_value.kind = "String"
    /\ result[2] = <<TypeDiff(key, "object", "string")>>

\* C7: two values of one primitive kind give empty key, type and array
\* diffs; the value diffs are empty if the values are equal and otherwise
\* hold exactly one ValueDiff for the key, value1 being A's value and value2
\* B's value ({v:1} against {v:2}: key "v", "1", "2").
C7_SamePrimitiveKind ==
    (FieldDone /\ IsPrimitive(a_value) /\ a_value.kind = b_value.kind) =>
        /\ result[1] = <<>>
        /\ result[2] = <<>>
        /\ result[4] = <<>>
        /\ (a_value = b_value) => (result[3] = <<>>)
        /\ (a_value # b_value) =>
              (result[3] = <<ValueDiff(key, Display(a_value), Display(b_value))>>)
        /\ (a_value = Number(1) /\ b_value = Number(2)) =>
              (result[3] = <<[key |-> key, value1 |-> "1", value2 |-> "2"]>>)

\* C7 witness: the numbers 1 and 2 compared at the field "v"
C7_Witness ==
    /\ FieldDone
    /\ key = "v"
    /\ a_value = Number(1)
    /\ b_value = Number(2)
    /\ result[3] = <<[key |-> "v", value1 |-> "1", value2 |-> "2"]>>

\* C8: null against a String, Number or Bool, on either side, gives exactly
\* one ValueDiff whose side of the null is the text "null" and whose other
\* side is the serialization of the value, and no key, type or array diff.
C8_NullAgainstPrimitive ==
    /\ (FieldDone /\ a_value = Null /\ IsPrimitive(b_value)) =>
          result = << <<>>, <<>>, <<ValueDiff(key, "null", Serialize(b_value))>>, <<>> >>
    /\ (FieldDone /\ IsPrimitive(a_value) /\ b_value = Null) =>
          result = << <<>>, <<>>, <<ValueDiff(key, Serialize(a_value), "null")>>, <<>> >>

\* C8 witness: a bool on side A against null on side B
C8_Witness ==
    /\ FieldDone
    /\ a_value = Bool(TRUE)
    /\ b_value = Null
    /\ result[3] = <<[key |-> key, value1 |-> "true", value2 |-> "null"]>>

\* the array diffs of an array against null: only entries for the array's
\* elements, each element held by one side and missed by the other
OnlyOnOneSide(diffs, elements, holder, misser) ==
    /\ \A i \in DOMAIN elements :
          /\ ArrayDiff(key, holder, Serialize(elements[i])) \in Range(diffs)
          /\ ArrayDiff(key, misser, Serialize(elements[i])) \in Range(diffs)
    /\ \A d \in Range(diffs) :
          /\ d.key = key
          /\ d.descriptor \in {holder, misser}
          /\ \E i \in DOMAIN elements : d.value = Serialize(elements[i])

\* C9: null against an array gives only array diffs; the null side counts
\* as an empty array, so every element of the array is reported as AHas and
\* BMisses when B is null and as BHas and AMisses when A is null.
C9_NullAgainstArray ==
    /\ (FieldDone /\ a_value.kind = "Array" /\ b_value = Null) =>
          /\ result[1] = <<>> /\ result[2] = <<>> /\ result[3] = <<>>
          /\ OnlyOnOneSide(result[4], a_value.v, "AHas", "BMisses")
    /\ (FieldDone /\ a_value = Null /\ b_value.kind = "Array") =>
          /\ result[1] = <<>> /\ result[2] = <<>> /\ result[3] = <<>>
          /\ OnlyOnOneSide(result[4], b_value.v, "BHas", "AMisses")

\* C9 witness: null on side A against an array of two different elements,
\* in ordered mode
C9_Witness ==
    /\ FieldDone
    /\ working_context.config.array_same_order
    /\ a_value = Null
    /\ b_value = Array(<<Number(1), Null>>)
    /\ Len(result[4]) = 4

\* the key diffs of an object against null: one for each key of the object
EveryKeyMissing(diffs, object, has, misses) ==
    /\ Len(diffs) = Cardinality(DOMAIN object)
    /\ \A k \in DOMAIN object : KeyDiff(ChildKey(key, k), has, misses) \in Range(diffs)

\* C10: null against an object gives what the object against an empty
\* object gives: one KeyDiff for each key of the object, has being the file
\* of the object's side and misses the file of the null side, and no value,
\* type or array diff for anything below those keys.
C10_NullAgainstObject ==
    /\ (FieldDone /\ a_value.kind = "Object" /\ b_value = Null) =>
          /\ result[2] = <<>> /\ result[3] = <<>> /\ result[4] = <<>>
          /\ EveryKeyMissing(result[1], a_value.v,
                             working_context.file_a.name, working_context.file_b.name)
          /\ result = compare_field(key, a_value, Object(EmptyMap), working_context)
    /\ (FieldDone /\ a_value = Null /\ b_value.kind = "Object") =>
          /\ result[2] = <<>> /\ result[3] = <<>> /\ result[4] = <<>>
          /\ EveryKeyMissing(result[1], b_value.v,
                             working_context.file_b.name, working_context.file_a.name)
          /\ result = compare_field(key, Object(EmptyMap), b_value, working_context)

\* C10 witness: null on side A against an object that holds an array
C10_Witness ==
    /\ FieldDone
    /\ working_context.file_a.name # working_context.file_b.name
    /\ a_value = Null
    /\ b_value.kind = "Object"
    /\ DOMAIN b_value.v = {"x", "y"}
    /\ b_value.v["x"].kind = "Array"
    /\ Len(result[1]) = 2

\* C6: comparing two objects classifies every key of the union once: a key
\* only A has gives one KeyDiff with has = file_a and misses = file_b, a key
\* only B has gives one with has = file_b and misses = file_a, a key both
\* have gives no KeyDiff for itself and is dispatched at the child path
\* (parent "." key, or the key at the root); has and misses of every KeyDiff
\* are the two file names of the context.
C6_ObjectKeysClassified ==
    (FieldDone /\ a_value.kind = "Object" /\ b_value.kind = "Object") =>
        LET a == a_value.v
            b == b_value.v
            file_a == working_context.file_a.name
            file_b == working_context.file_b.name
            At(k) == {i \in DOMAIN result[1] : result[1][i].key = ChildKey(key, k)}
        IN  /\ \A k \in (DOMAIN a) \ (DOMAIN b) :
                  /\ Cardinality(At(k)) = 1
                  /\ \A i \in At(k) : result[1][i] = KeyDiff(ChildKey(key, k), file_a, file_b)
            /\ \A k \in (DOMAIN b) \ (DOMAIN a) :
                  /\ Cardinality(At(k)) = 1
                  /\ \A i \in At(k) : result[1][i] = KeyDiff(ChildKey(key, k), file_b, file_a)
            /\ \A k \in (DOMAIN a) \cap (DOMAIN b) :
                  /\ At(k) = {}
                  /\ \A c \in 1..4 :
                        Range(compare_field(ChildKey(key, k), a[k], b[k], working_context)[c])
                            \subseteq Range(result[c])
            /\ \A k \in Keys \ ((DOMAIN a) \cup (DOMAIN b)) : At(k) = {}
            /\ \A d \in Range(result[1]) :
                  <<d.has, d.misses>> \in {<<file_a, file_b>>, <<file_b, file_a>>}
            /\ \A c \in 2..4 : \A d \in Range(result[c]) :
                  \E k \in (DOMAIN a) \cap (DOMAIN b) :
                      d \in Range(compare_field(ChildKey(key, k), a[k], b[k], working_context)[c])

\* C6 witness: {x:1, y:2} against {x:1, z:1} at the root gives y held by A
\* and z held by B, and no other diff
C6_Witness ==
    /\ FieldDone
    /\ key = ""
    /\ working_context.file_a.name # working_context.file_b.name
    /\ a_value.kind = "Object"
    /\ b_value.kind = "Object"
    /\ DOMAIN a_value.v = {"x", "y"}
    /\ DOMAIN b_value.v = {"x", "z"}
    /\ a_value.v["x"] = Number(1)
    /\ b_value.v["x"] = Number(1)
    /\ Range(result[1]) = {KeyDiff("y", FILE_NAME_A, FILE_NAME_B),
                           KeyDiff("z", FILE_NAME_B, FILE_NAME_A)}
    /\ Len(result[1]) = 2
    /\ result[2] = <<>> /\ result[3] = <<>> /\ result[4] = <<>>

-----------------------------------------------------------------------------
(* Properties of the finders *)

Collected == pc = "collected"

\* C4: identity: the key, type, value and array finders run on (D, D) each
\* return the empty sequence, in ordered and in unordered array mode, also
\* when D holds nulls, nested objects and arrays.
C4_Identity ==
    (Collected /\ a_value = b_value) =>
        collected = << IF config.check_for_key_diffs THEN Some(<<>>) ELSE None,
                       IF config.check_for_type_diffs THEN Some(<<>>) ELSE None,
                       IF config.check_for_value_diffs THEN Some(<<>>) ELSE None,
                       IF config.check_for_array_diffs THEN Some(<<>>) ELSE None >>

\* C4 witness: a document holding an array and an object with a null member
\* compared with itself in ordered mode, the four finders enabled
C4_Witness ==
    /\ Collected
    /\ working_context.config.array_same_order
    /\ a_value = b_value
    /\ DOMAIN a_value.v = {"x", "y"}
    /\ a_value.v["x"] = Array(<<Number(1), Number(2)>>)
    /\ a_value.v["y"] = Object([k \in {"y"} |-> Null])
    /\ collected = <<Some(<<>>), Some(<<>>), Some(<<>>), Some(<<>>)>>

\* C5: key-diff symmetry: the key finder on (B, A) reports the same key
\* paths as on (A, B), and the record of each key has has and misses
\* exchanged.
C5_KeyDiffSymmetry ==
    (Collected /\ config.check_for_key_diffs) =>
        LET ab == Range(collected[1][1])
            ba == Range(find_key_diffs("", b_value.v, a_value.v, working_context))
        IN  /\ {d.key : d \in ab} = {d.key : d \in ba}
            /\ \A d \in ab : KeyDiff(d.key, d.misses, d.has) \in ba
            /\ \A d \in ba : KeyDiff(d.key, d.misses, d.has) \in ab

\* C5 witness: two documents of two different files, one key held only by
\* A and a nested key held only by B
C5_Witness ==
    /\ Collected
    /\ config.check_for_key_diffs
    /\ working_context.file_a.name # working_context.file_b.name
    /\ \E d \in Range(collected[1][1]) : d.key = "y" /\ d.has = FILE_NAME_A
    /\ \E d \in Range(collected[1][1]) : d.key = "x.x" /\ d.has = FILE_NAME_B

-----------------------------------------------------------------------------
(* Properties of the Array Comparator *)

SameOrderMode == working_context.config.array_same_order

BothArrays == a_value.kind = "Array" /\ b_value.kind = "Array"

\* the canonical texts of the elements of an array value
TextSet(array) == {Serialize(array.v[i]) : i \in DOMAIN array.v}

\* how many entries of diffs are the record d
Count(diffs, d) == Cardinality({i \in DOMAIN diffs : diffs[i] = d})

\* C11: in unordered mode the array diffs of an Array/Array field are the
\* set difference in both directions: one AHas and one BMisses for each
\* element text A has and B has not, one BHas and one AMisses for each text
\* B has and A has not, nothing for a text both have, whatever the
\* positions; and no key, type or value diff.
C11_UnorderedSetDifference ==
    (FieldDone /\ BothArrays /\ ~SameOrderMode) =>
        LET onlyA == TextSet(a_value) \ TextSet(b_value)
            onlyB == TextSet(b_value) \ TextSet(a_value)
        IN  /\ \A v \in onlyA :
                  /\ Count(result[4], ArrayDiff(key, "AHas", v)) = 1
                  /\ Count(result[4], ArrayDiff(key, "BMisses", v)) = 1
            /\ \A v \in onlyB :
                  /\ Count(result[4], ArrayDiff(key, "BHas", v)) = 1
                  /\ Count(result[4], ArrayDiff(key, "AMisses", v)) = 1
            /\ Len(result[4]) = 2 * Cardinality(onlyA) + 2 * Cardinality(onlyB)
            /\ result[1] = <<>> /\ result[2] = <<>> /\ result[3] = <<>>

\* C11 witness: [1, 2] against [2, "a"] in unordered mode gives AHas/1,
\* BMisses/1, BHas/"a", AMisses/"a" and nothing for 2
C11_Witness ==
    /\ FieldDone
    /\ ~SameOrderMode
    /\ a_value = Array(<<Number(1), Number(2)>>)
    /\ b_value = Array(<<Number(2), String("a")>>)
    /\ Len(result[4]) = 4
    /\ Range(result[4]) = {ArrayDiff(key, "AHas", "1"), ArrayDiff(key, "BMisses", "1"),
                           ArrayDiff(key, "BHas", "\"a\""), ArrayDiff(key, "AMisses", "\"a\"")}

\* the descriptor that pairs with a descriptor
Complement(descriptor) ==
    [AHas |-> "BMisses", BMisses |-> "AHas", BHas |-> "AMisses", AMisses |-> "BHas"][descriptor]

\* C12: in unordered mode the array diffs come in complementary pairs: an
\* AHas entry for (key, value) has a BMisses entry for the same key and
\* value and conversely, and likewise BHas and AMisses; also for arrays
\* inside objects and arrays met by the null-against-array handler.
C12_ComplementaryDescriptors ==
    (FieldDone /\ ~SameOrderMode) =>
        \A d \in Range(result[4]) :
            Count(result[4], d)
                = Count(result[4], ArrayDiff(d.key, Complement(d.descriptor), d.value))

\* C12 witness: an object whose member x is an array against an object
\* whose member x is null, in unordered mode
C12_Witness ==
    /\ FieldDone
    /\ ~SameOrderMode
    /\ key = ""
    /\ a_value.kind = "Object"
    /\ b_value.kind = "Object"
    /\ DOMAIN a_value.v = {"x"}
    /\ DOMAIN b_value.v = {"x"}
    /\ a_value.v["x"] = Array(<<Number(1)>>)
    /\ b_value.v["x"] = Null
    /\ result[4] = <<ArrayDiff("x", "AHas", "1"), ArrayDiff("x", "BMisses", "1")>>

\* two vectors hold the same elements, each as often, in a different order
Reordered(s, t) ==
    /\ Len(s) = Len(t)
    /\ s # t
    /\ \A e \in Range(s) \cup Range(t) :
          Cardinality({i \in DOMAIN s : s[i] = e}) = Cardinality({i \in DOMAIN t : t[i] = e})

\* the (one based) positions at which two vectors of one length differ
Displaced(s, t) == {i \in DOMAIN s : s[i] # t[i]}

\* the ValueDiffs reported at the path of the (one based) position i
ValueDiffsAt(i) ==
    {j \in DOMAIN result[3] : result[3][j].key = IndexKey(key, i - 1)}

\* every element of the vector is null or of one primitive kind
OnePrimitiveKind(s) ==
    \E kind \in {"String", "Number", "Bool"} : \A e \in Range(s) : e.kind \in {kind, "Null"}

\* C13 as stated: for any two arrays holding the same elements in a
\* different order, ordered mode reports one value difference at the path
\* parent "[i]" of every index whose elements differ and no ArrayDiff;
\* unordered mode reports nothing.
C13_AnyReorderedArrays ==
    (FieldDone /\ BothArrays /\ Reordered(a_value.v, b_value.v)) =>
        IF SameOrderMode
        THEN /\ \A i \in Displaced(a_value.v, b_value.v) : Cardinality(ValueDiffsAt(i)) = 1
             /\ result[4] = <<>>
        ELSE result = EmptyResult

\* C13 amended: the same for two arrays whose elements are null or of one
\* primitive kind; the value differences are then the only diffs.
C13_ReorderedPrimitives ==
    (FieldDone /\ BothArrays /\ Reordered(a_value.v, b_value.v)
        /\ OnePrimitiveKind(a_value.v)) =>
        IF SameOrderMode
        THEN /\ \A i \in Displaced(a_value.v, b_value.v) : Cardinality(ValueDiffsAt(i)) = 1
             /\ Len(result[3]) = Cardinality(Displaced(a_value.v, b_value.v))
             /\ result[1] = <<>> /\ result[2] = <<>> /\ result[4] = <<>>
        ELSE result = EmptyResult

\* C13 witness: ["a", "b"] against ["b", "a"] in ordered mode gives the two
\* mismatches v[0] and v[1]
C13_Witness ==
    /\ FieldDone
    /\ SameOrderMode
    /\ key = "v"
    /\ a_value = Array(<<String("a"), String("b")>>)
    /\ b_value = Array(<<String("b"), String("a")>>)
    /\ result[3] = <<ValueDiff("v[0]", "a", "b"), ValueDiff("v[1]", "b", "a")>>

-----------------------------------------------------------------------------
(* Properties of collect_data *)

\* the category flags of the configuration, in the order of the result
Flags ==
    << config.check_for_key_diffs, config.check_for_type_diffs,
       config.check_for_value_diffs, config.check_for_array_diffs >>

FinderNames ==
    << "find_key_diffs", "find_type_diffs", "find_value_diffs", "find_array_diffs" >>

\* what each finder returns when called at the root path on the documents
FinderResults ==
    << find_key_diffs("", a_value.v, b_value.v, working_context),
       find_type_diffs("", a_value.v, b_value.v, working_context),
       find_value_diffs("", a_value.v, b_value.v, working_context),
       find_array_diffs("", a_value.v, b_value.v, working_context) >>

\* C14: collect_data computes a category if and only if its flag is
\* enabled: the component is Some(the finder's result at root path "") and
\* the finder was called when the flag is true, None and the finder not
\* called when it is false, each flag deciding its own category only.
C14_CategoryIffFlag ==
    Collected =>
        \A i \in 1..4 :
            IF Flags[i]
            THEN collected[i] = Some(FinderResults[i]) /\ FinderNames[i] \in invoked
            ELSE collected[i] = None /\ FinderNames[i] \notin invoked

\* C14 witness: only the type and the array category enabled, on documents
\* with a type difference and with value differences nobody asked for
C14_Witness ==
    /\ Collected
    /\ Flags = <<FALSE, TRUE, FALSE, TRUE>>
    /\ invoked = {"find_type_diffs", "find_array_diffs"}
    /\ collected[1] = None /\ collected[3] = None
    /\ collected[2] # None /\ collected[2] # Some(<<>>)
    /\ collected[4] = Some(FinderResults[4])
    /\ FinderResults[3] # <<>>

\* C15: the four finders agree with one combined traversal: the sequence
\* each finder returns for two root objects equals its category's component
\* of the four-way result of comparing the two roots as one field through
\* the dispatcher.
C15_FindersAgreeWithOneTraversal ==
    Collected =>
        LET combined == compare_field("", a_value, b_value, working_context)
        IN  \A i \in 1..4 : Flags[i] => collected[i] = Some(combined[i])

\* C15 witness: the four finders ran on documents whose combined traversal
\* finds key differences and differences below a shared key
C15_Witness ==
    /\ Collected
    /\ Flags = <<TRUE, TRUE, TRUE, TRUE>>
    /\ collected[1] # Some(<<>>)
    /\ collected[2] # Some(<<>>) \/ collected[3] # Some(<<>>) \/ collected[4] # Some(<<>>)
    /\ collected = << Some(compare_objects("", a_value.v, b_value.v, working_context)[1]),
                      Some(compare_objects("", a_value.v, b_value.v, working_context)[2]),
                      Some(compare_objects("", a_value.v, b_value.v, working_context)[3]),
                      Some(compare_objects("", a_value.v, b_value.v, working_context)[4]) >>

-----------------------------------------------------------------------------
(* Properties of the finders run as tasks *)

TasksDone == pc = "tasks" /\ \A c \in 1..4 : tasks[c].step > LastStep

AllChecks ==
    [check_for_key_diffs |-> TRUE, check_for_type_diffs |-> TRUE,
     check_for_value_diffs |-> TRUE, check_for_array_diffs |-> TRUE]

\* C16: the four finders run as concurrent tasks over the same documents
\* and the same working context are safe: under every interleaving no step
\* of a finder changes the documents or the context, and each finder's
\* result is the one it gives when the four run one after another.
C16_ConcurrentFindersSafe ==
    /\ [][/\ a_value' = a_value
          /\ b_value' = b_value
          /\ working_context' = working_context]_vars
    /\ [](TasksDone =>
            \A c \in 1..4 :
                Some(tasks[c].found) =
                    collect_data(a_value.v, b_value.v, working_context, AllChecks)[c])

\* C16 witness: the four tasks finished on documents of two different
\* files in which every finder found something
C16_Witness ==
    /\ TasksDone
    /\ working_context.file_a.name # working_context.file_b.name
    /\ \A c \in 1..4 : tasks[c].found # <<>>

-----------------------------------------------------------------------------
(* Properties of the tables *)

Rendered == pc = "rendered"

\* the printed tables with the given title
Titled(title) == {t \in Range(tables) : t[1][1].text = title}

\* the row of the i-th record in a table: the two header rows come first
RowOf(table, i) == table[i + 2]

Check == Colored(CHECKMARK, "Green")

Cross == Colored(MULTIPLY, "Red")

\* C19: in the key-difference table each KeyDiff row marks presence per
\* side: the column of file A shows the check mark if and only if the
\* record's has is file A's name and the cross otherwise, likewise for file
\* B; for a record whose has and misses are the two distinct file names
\* exactly one of the two columns shows the check mark.
C19_KeyTableMarks ==
    (Rendered /\ NotEmpty(collected[1])) =>
        LET data == collected[1][1]
            name_a == working_context.file_a.name
            name_b == working_context.file_b.name
        IN  /\ Cardinality(Titled("Key Differences")) = 1
            /\ \A table \in Titled("Key Differences") :
                  /\ Len(table) = Len(data) + 2
                  /\ \A i \in DOMAIN data :
                        LET row == RowOf(table, i)
                        IN  /\ row[1] = TableCell(data[i].key)
                            /\ row[2] = IF data[i].has = name_a THEN Check ELSE Cross
                            /\ row[3] = IF data[i].has = name_b THEN Check ELSE Cross
                            /\ ( /\ name_a # name_b
                                 /\ {data[i].has, data[i].misses} = {name_a, name_b} )
                                  => (row[2] = Check) # (row[3] = Check)

\* C19 witness: the table of two files with a key only A has and a key
\* only B has
C19_Witness ==
    /\ Rendered
    /\ working_context.file_a.name # working_context.file_b.name
    /\ collected[1] = Some(<<KeyDiff("x", FILE_NAME_A, FILE_NAME_B),
                             KeyDiff("x", FILE_NAME_B, FILE_NAME_A)>>)
    /\ tables # <<>>
    /\ tables[1][3] = <<TableCell("x"), Check, Cross>>
    /\ tables[1][4] = <<TableCell("x"), Cross, Check>>

\* C20: in the array-difference table the rows of the same key and value
\* under different descriptors are rendered differently, so that the side
\* holding the element can be read from the row.
C20_RowsTellDescriptors ==
    (Rendered /\ NotEmpty(collected[4])) =>
        LET data == collected[4][1]
        IN  \A table \in Titled("Array Differences") :
                \A i, j \in DOMAIN data :
                    ( /\ data[i].key = data[j].key
                      /\ data[i].value = data[j].value
                      /\ data[i].descriptor # data[j].descriptor )
                        => RowOf(table, i) # RowOf(table, j)

-----------------------------------------------------------------------------
(* Properties of the runs *)

\* C17: failures of the I/O layer are returned to the caller as distinct
\* error kinds and never abort the process: a missing or unreadable input
\* file, a malformed input or saved-session document and a failure to write
\* the result each end in an error value that tells an I/O failure from a
\* malformed-data failure, and no comparison is started when loading failed.
C17_FailuresReturnedAsErrorKinds ==
    outcome.failure # "none" =>
        /\ outcome.kind = "Err"
        /\ outcome.error = outcome.failure
        /\ outcome.during = "load" => collected = <<None, None, None, None>>

\* the context was made from a saved session
ContextOfSavedSession == pc = "context" /\ config.read_from_file # ""

\* C18: saved-session round trip: after write_to_file succeeded for a
\* working context W, create_working_context reading that file yields a
\* context with the category flags, the file names and the array mode of W,
\* whatever flags the later command line gives, with read_from_file and
\* write_to_file of the later run; and the four diff sequences read back
\* are the sequences written.
C18_SavedSessionRoundTrip ==
    ContextOfSavedSession =>
        /\ written # None
        /\ LET W == written[1]
               saved == read_from_file(disk, config.read_from_file).value.v
           IN  /\ config.check_for_key_diffs = W.config.check_for_key_diffs
               /\ config.check_for_type_diffs = W.config.check_for_type_diffs
               /\ config.check_for_value_diffs = W.config.check_for_value_diffs
               /\ config.check_for_array_diffs = W.config.check_for_array_diffs
               /\ config.file_a = W.config.file_a
               /\ config.file_b = W.config.file_b
               /\ config.array_same_order = W.config.array_same_order
               /\ working_context = W.working_context
               /\ config.read_from_file = args.read_from_file
               /\ config.write_to_file = args.write_to_file
               /\ <<saved.key_diff, saved.type_diff, saved.value_diff, saved.array_diff>>
                     = W.diffs

\* C18 witness: a session saved in ordered mode with the key and the value
\* category, read back by a run asking for the array category in unordered
\* mode
C18_Witness ==
    /\ ContextOfSavedSession
    /\ args.array_diffs /\ ~args.key_diffs /\ ~args.value_diffs /\ ~args.array_same_order
    /\ config.check_for_key_diffs /\ config.check_for_value_diffs
    /\ ~config.check_for_array_diffs
    /\ config.array_same_order
    /\ config.file_a = Some(FILE_NAME_A) /\ config.file_b = Some(FILE_NAME_B)
    /\ written # None
    /\ written[1].diffs[1] # <<>> /\ written[1].diffs[3] # <<>>

-----------------------------------------------------------------------------
(* Properties of the type differences *)

TypeNames == {"null", "bool", "number", "string", "array", "object"}

\* C21: every TypeDiff the dispatcher produces, at the field or below it,
\* has type1 different from type2, both among the six pairwise distinct
\* type names; a TypeDiff at the field itself is produced only for two
\* values of different kinds, type1 naming A's kind and type2 naming B's.
C21_TypeDiffNamesDiffer ==
    FieldDone =>
        \A d \in Range(result[2]) :
            /\ d.type1 \in TypeNames
            /\ d.type2 \in TypeNames
            /\ d.type1 # d.type2
            /\ d.key = key =>
                  /\ a_value.kind # b_value.kind
                  /\ d.type1 = KindName(a_value.kind)
                  /\ d.type2 = KindName(b_value.kind)

\* C21 witness: a string against a number at the path v
C21_Witness ==
    /\ FieldDone
    /\ key = "v"
    /\ a_value = String("a")
    /\ b_value = Number(1)
    /\ result[2] = <<TypeDiff("v", "string", "number")>>

-----------------------------------------------------------------------------
(* Properties of the recursion *)

RECURSIVE NestingDepth(_), Weight(_), SumOver(_, _), MaxOver(_, _), StackWeightFrom(_)

\* the children of an array or an object, as a sequence
Children(value) ==
    CASE value.kind = "Array" -> value.v
      [] value.kind = "Object" ->
            LET present == SelectSeq(KeyOrder, LAMBDA k : k \in DOMAIN value.v)
            IN  [i \in 1..Len(present) |-> value.v[present[i]]]
      [] OTHER -> <<>>

\* the largest of the nesting depths of the values s[i..]
MaxOver(s, i) ==
    IF i > Len(s) THEN 0
    ELSE LET here == NestingDepth(s[i])
             rest == MaxOver(s, i + 1)
         IN  IF here > rest THEN here ELSE rest

\* a scalar nests to depth 0, an array or object one deeper than its children
NestingDepth(value) ==
    IF value.kind \in {"Array", "Object"}
    THEN 1 + MaxOver(Children(value), 1)
    ELSE 0

\* the weights of the values s[i..], one more for each
SumOver(s, i) ==
    IF i > Len(s) THEN 0 ELSE 1 + Weight(s[i]) + SumOver(s, i + 1)

\* the size of a value: strictly larger than what its children weigh
Weight(value) == 1 + SumOver(Children(value), 1)

\* what is left to do for a pending call
FrameWeight(frame) ==
    IF frame.kind = "emit" THEN 1 ELSE 1 + Weight(frame.a) + Weight(frame.b)

StackWeightFrom(i) ==
    IF i > Len(stack) THEN 0 ELSE FrameWeight(stack[i]) + StackWeightFrom(i + 1)

StackWeight == StackWeightFrom(1)

DeeperDocument ==
    IF NestingDepth(a_value) > NestingDepth(b_value)
    THEN NestingDepth(a_value) ELSE NestingDepth(b_value)

WalkDone == pc = "walk" /\ Len(stack) = 0

\* C22: the comparison always terminates: every call of the dispatcher is
\* made on sub-values that weigh strictly less than those of the call that
\* made it, so that what is pending shrinks with every step; no call is
\* deeper than the deeper of the two documents nests; and what the walk
\* returns is what each finder returns.
C22_ComparisonTerminates ==
    /\ [][StackWeight' < StackWeight]_vars
    /\ [](pc = "walk" => \A i \in DOMAIN stack : stack[i].depth <= DeeperDocument)
    /\ [](WalkDone =>
            \A c \in 1..4 :
                Some(result[c]) =
                    collect_data(a_value.v, b_value.v, working_context, AllChecks)[c])

\* C22 witness: in ordered mode a call four levels down, as deep as the
\* documents nest, on the member of an object that is an element of an array
C22_Witness ==
    /\ pc = "walk"
    /\ working_context.config.array_same_order
    /\ DeeperDocument = 4
    /\ Len(stack) > 0
    /\ stack[1].kind = "field"
    /\ stack[1].depth = 4
    /\ stack[1].key = "x.y[1].z"

-----------------------------------------------------------------------------
(* Properties of render_tables *)

\* the titles of the tables of the four categories, in the order of the
\* categories
Titles ==
    << "Key Differences", "Type Differences", "Value Differences", "Array Differences" >>

\* the category whose table was printed in the j-th place
CategoryAt(j) == CHOOSE c \in 1..4 : tables[j][1][1].text = Titles[c]

\* the category was handed over and holds a difference
HasDifferences(c) ==
    IF collected[c] = None THEN FALSE ELSE Len(collected[c][1]) > 0

\* C23: render_tables prints the table of a category if and only if the
\* category's sequence is there and not empty, so that a disabled category
\* and one without differences print nothing; the tables printed come in
\* the order key, type, value, array; and the call returns Ok.
C23_TablesOfNonEmptyCategories ==
    Rendered =>
        /\ \A j \in DOMAIN tables : \E c \in 1..4 : tables[j][1][1].text = Titles[c]
        /\ \A c \in 1..4 :
              HasDifferences(c) <=> \E j \in DOMAIN tables : CategoryAt(j) = c
        /\ \A j, k \in DOMAIN tables : j < k => CategoryAt(j) < CategoryAt(k)
        /\ outcome.kind = "Ok"

\* C23 witness: the key category without differences, the type category
\* disabled, value and array differences: two tables, value then array
C23_Witness ==
    /\ Rendered
    /\ collected[1] = Some(<<>>)
    /\ collected[2] = None
    /\ HasDifferences(3) /\ HasDifferences(4)
    /\ Len(tables) = 2
    /\ tables[1][1][1].text = "Value Differences"
    /\ tables[2][1][1].text = "Array Differences"
    /\ outcome.kind = "Ok"


-----------------------------------------------------------------------------
(* C24 *)

\* write_to_file has been called and has returned or panicked
Wrote == pc = "exit" /\ outcome.during \in {"write", "none"} /\ outcome.kind # "running"

\* what the file at the path reads back as
SavedAt(files, path) == from_reader(files[path])

\* C24: write_to_file returns Err(()) and leaves every file as it was whenever
\* the context's write_to_file path is None, whatever diffs are passed; when
\* a path is set and Ok(()) is returned, the file at the path reads back as
\* a saved context in which a category passed as None is an empty sequence,
\* a category passed as Some is that sequence, and the flags, the two file
\* names and array_same_order are those of the Config.
C24_WriteToFileWithoutAndWithPath ==
    [][pc = "collected" /\ pc' = "exit" =>
        IF config.write_to_file = None
        THEN /\ outcome'.kind = "Err"
             /\ outcome'.error = "()"
             /\ disk' = disk
        ELSE outcome'.kind = "Ok" =>
                LET saved == SavedAt(disk', config.write_to_file[1])
                    categories == <<saved.v.key_diff, saved.v.type_diff,
                                    saved.v.value_diff, saved.v.array_diff>>
                IN  /\ saved.ok
                    /\ \A c \in 1..4 :
                          /\ collected[c] = None => categories[c] = <<>>
                          /\ collected[c] # None => categories[c] = collected[c][1]
                    /\ saved.v.config = SavedConfig(config.check_for_key_diffs,
                                                    config.check_for_type_diffs,
                                                    config.check_for_value_diffs,
                                                    config.check_for_array_diffs,
                                                    config.file_a[1], config.file_b[1],
                                                    config.array_same_order)]_vars

\* without a path, diffs of two categories were passed: Err(()) and no file
C24_Witness ==
    /\ Wrote
    /\ config.write_to_file = None
    /\ collected[1] # None /\ collected[1] # Some(<<>>)
    /\ collected[4] # None /\ collected[4] # Some(<<>>)
    /\ outcome.kind = "Err"
    /\ outcome.error = "()"
    /\ disk[SavedPath] = Missing

\* with a path, the type diffs passed as None were saved as an empty sequence
C24_WitnessSaved ==
    /\ Wrote
    /\ config.write_to_file = Some(SavedPath)
    /\ collected[2] = None
    /\ collected[3] # None /\ collected[3] # Some(<<>>)
    /\ outcome.kind = "Ok"
    /\ SavedAt(disk, SavedPath).ok
    /\ SavedAt(disk, SavedPath).v.type_diff = <<>>
    /\ SavedAt(disk, SavedPath).v.value_diff = collected[3][1]

====
